---- MODULE Spec2Model ----
(***************************************************************************)
(* Model of the convergence-and-verification engine of tdad-paper-code:    *)
(*   - scripts/compile_prompt.py : compile_loop and focused_inner_loop     *)
(*   - scripts/run_mutation_testing.py : main and run_mutation_test        *)
(*   - tdadlib/mutationsmith/predicates.py : evaluate_violation            *)
(* The test harness, the repair agent, the mutant generator and the        *)
(* activation probe are external collaborators: their results are chosen   *)
(* nondeterministically from small sets.                                   *)
(***************************************************************************)
EXTENDS Integers, Sequences, FiniteSets, TLC

(* ------------------------------ bounds --------------------------------- *)
NumTests == 3
MaxIters == 2
MaxInnerIters == 4
MaxAttempts == 3
NumMutations == 2
MaxTraceLen == 3
MaxKeys == 2
\* The user turns of a probe scenario and the tool invocations of one run.
MaxTurns == 2
MaxCalls == 3
\* The lines of a report given to the report functions, and the attempts of
\* validate_generated_tests.
MaxReportLen == 4
MaxFixAttempts == 2

(* ------------------------------ data ----------------------------------- *)
\* Test node ids t1..tN are represented by 1..N.
TestIds == 1..NumTests

\* A line of harness output is either a "FAILED <id>" line (the id) or any
\* other line (0).  A report is the sequence of its lines; <<>> is the empty
\* string (falsy in Python).
OtherLine == 0
Lines == TestIds \cup {OtherLine}

\* File contents are numbered texts; Absent marks a path with no file.
Absent == -1

\* Exit status of a harness run: 0 or non-zero.
ExitCodes == {0, 1}

None == -1

VARIABLES
  \* ---- compile_loop / focused_inner_loop ----
  max_iters, inner_loop_threshold, max_inner_iters, initial_results_content,
  pc, i, code, out, failing_tests, exit_code,
  inner_i, first_iteration, original_failing, still_failing,
  prompt_file, candidate_file,
  \* history of the session (observations, not program variables)
  full_runs, targeted_runs, entry_runs, inner_entries, promotions,
  progressed, last_step, edits,
  \* the session totals of compile_loop and the totals focused_inner_loop returns
  total_test_time, total_cost_usd, total_usage,
  inner_test_time, inner_cost_usd, inner_usage,
  \* ---- run_mutation_testing ----
  max_attempts, cache_dir, mpc, mutation, attempt, attempts, activated,
  killed, mutant_artifacts, suite_exit, result, results, files, env_override,
  main_exit,
  \* history of the current run_mutation_test call (observations)
  gen_calls, probe_calls, suite_runs, activated_at, suite_saw,
  \* ---- evaluate_violation ----
  expect_violation, trace, assistant_text, assistant_json,
  vpc, reasons, all_passed, predicates_checked,
  \* ---- the activation probe and run_agent_conversation ----
  user_turns, turn, rpc, probe_trace, session_trace, aliased, turn_results,
  probe_result,
  \* history of the scenario run (observation): the tool invocations made
  invoked,
  \* ---- extract_failing_test_ids and classify_test_failures on a report ----
  pytest_output, xpc, failing_ids, infrastructure_bugs, expected_failures,
  parsed, passed_count, failed_count,
  \* ---- validate_generated_tests ----
  test_type, visible_dirs, hidden_dirs, max_fix_attempts, tpc, fix_attempt,
  visible_output, hidden_output, infra_bugs, expected_fails, validated,
  \* history of the validation (observations)
  runs, pytest_calls, fixer_calls, clean_runs

cvars == <<max_iters, inner_loop_threshold, max_inner_iters,
           initial_results_content, pc, i, code, out, failing_tests,
           exit_code, inner_i, first_iteration, original_failing,
           still_failing, prompt_file, candidate_file, full_runs,
           targeted_runs, entry_runs, inner_entries, promotions, progressed,
           last_step, edits, total_test_time, total_cost_usd, total_usage,
           inner_test_time, inner_cost_usd, inner_usage>>

mvars == <<max_attempts, cache_dir, mpc, mutation, attempt, attempts,
           activated, killed, mutant_artifacts, suite_exit, result, results,
           files, env_override, main_exit, gen_calls, probe_calls, suite_runs,
           activated_at, suite_saw>>

pvars == <<expect_violation, trace, assistant_text, assistant_json,
           vpc, reasons, all_passed, predicates_checked>>

rvars == <<user_turns, turn, rpc, probe_trace, session_trace, aliased,
           turn_results, probe_result, invoked>>

xvars == <<pytest_output, xpc, failing_ids, infrastructure_bugs, expected_failures,
           parsed, passed_count, failed_count>>

tvars == <<test_type, visible_dirs, hidden_dirs, max_fix_attempts, tpc,
           fix_attempt, visible_output, hidden_output, infra_bugs,
           expected_fails, validated, runs, pytest_calls, fixer_calls,
           clean_runs>>

vars == <<cvars, mvars, pvars, rvars, xvars, tvars>>

(* ----------------------- pure helper functions ------------------------- *)
Range(s) == {s[k] : k \in 1..Len(s)}

RECURSIVE Dedup(_, _)
Dedup(matches, unique) ==
  IF matches = <<>> THEN unique
  ELSE IF Head(matches) \in Range(unique)
       THEN Dedup(Tail(matches), unique)
       ELSE Dedup(Tail(matches), Append(unique, Head(matches)))

\* re.findall(r'FAILED\s+(...)', output): the ids of the FAILED lines, in order.
FindAllFailed(output) == SelectSeq(output, LAMBDA l : l \in TestIds)

\* A mutant of extract_failing_test_ids: the matches are returned as found.
extract_all_matches(output) == FindAllFailed(output)

extract_failing_test_ids(output) == Dedup(FindAllFailed(output), <<>>)

\* list(S) for a Python set S.  Python fixes no order; the ids are listed in
\* ascending order (the order is read by nothing but the command line).
RECURSIVE ListOf(_)
ListOf(S) ==
  IF S = {} THEN <<>>
  ELSE LET m == CHOOSE x \in S : \A y \in S : x <= y
       IN <<m>> \o ListOf(S \ {m})

\* What the harness prints for a run whose failing tests are `order`: pytest
\* prints a FAILED line during execution and again in the short test summary.
PytestReport(order) == order \o <<OtherLine>> \o order

\* The outputs the harness can produce: nothing at all, or a pytest report
\* for any set of failing ids.
SuiteReports ==
  {<<>>} \cup {PytestReport(ListOf(S)) : S \in SUBSET TestIds}

(* ======================================================================= *)
(*                 compile_loop and focused_inner_loop                     *)
(* ======================================================================= *)

\* The pre-supplied report of iteration 1: none (or an empty file), or a
\* report in which every test fails.
InitialResults == {<<>>, PytestReport(ListOf(TestIds))}

\* The configured thresholds: one that some failure counts reach or exceed,
\* and one above every possible failure count.
Thresholds == {2, NumTests + 1}

CompileIdle ==
  /\ max_iters = 0 /\ inner_loop_threshold = 0 /\ max_inner_iters = 0
  /\ initial_results_content = <<>>
  /\ pc = "idle" /\ i = 0 /\ code = None /\ out = <<>> /\ failing_tests = <<>>
  /\ exit_code = None /\ inner_i = 0 /\ first_iteration = FALSE
  /\ original_failing = {} /\ still_failing = {}
  /\ prompt_file = Absent /\ candidate_file = Absent
  /\ full_runs = 0 /\ targeted_runs = 0 /\ entry_runs = 0 /\ inner_entries = 0
  /\ promotions = 0 /\ progressed = FALSE /\ last_step = "init" /\ edits = 0
  /\ total_test_time = 0 /\ total_cost_usd = 0 /\ total_usage = 0
  /\ inner_test_time = 0 /\ inner_cost_usd = 0 /\ inner_usage = 0

\* compile_loop is entered with its parameters (the smallest and the largest
\* iteration budgets) and the prompt file present; the initial results are
\* loaded before the first iteration.
CompileInit ==
  /\ max_iters \in {1, MaxIters}
  /\ inner_loop_threshold \in Thresholds
  /\ max_inner_iters \in {0, MaxInnerIters}
  /\ initial_results_content \in InitialResults
  /\ pc = "outer_top" /\ i = 1 /\ code = None /\ out = <<>> /\ failing_tests = <<>>
  /\ exit_code = None /\ inner_i = 0 /\ first_iteration = FALSE
  /\ original_failing = {} /\ still_failing = {}
  /\ prompt_file = 0 /\ candidate_file = Absent
  /\ full_runs = 0 /\ targeted_runs = 0 /\ entry_runs = 0 /\ inner_entries = 0
  /\ promotions = 0 /\ progressed = FALSE /\ last_step = "init" /\ edits = 0
  /\ total_test_time = 0 /\ total_cost_usd = 0 /\ total_usage = 0
  /\ inner_test_time = 0 /\ inner_cost_usd = 0 /\ inner_usage = 0

totals == <<total_test_time, total_cost_usd, total_usage>>
inner_totals == <<inner_test_time, inner_cost_usd, inner_usage>>

\* The wall-clock time of one suite execution, and the tokens and the cost
\* of one query to the agent, each taken as one unit.
RunSeconds == 1
QueryTokens == 1
QueryCost == 1

\* msg.total_cost_usd of the ResultMessage that ends the n-th query of the
\* client: "SDK reports cumulative cost".
SdkTotalCost(n) == n * QueryCost

\* A mutant of WithInner: what the inner loop returned is not added.
WithInnerDropped(total, inner) == total

\* total += inner, for the time, the cost and the tokens the inner loop
\* returned.
WithInner(total, inner) == total + inner

config_vars == <<max_iters, inner_loop_threshold, max_inner_iters, initial_results_content>>
inner_vars == <<inner_i, first_iteration, original_failing, still_failing>>
inner_hist == <<entry_runs, inner_entries, progressed>>

\* A mutant of UseInitialResults: the report is reused in every iteration.
UseInitialResultsAlways == initial_results_content # <<>>

\* The condition under which iteration i reuses the pre-supplied report.
UseInitialResults == i = 1 /\ initial_results_content # <<>>

\* A mutant of OuterInRange: the loop bound is off by one.
OuterInRangeOffByOne == i <= max_iters + 1

\* for i in range(1, max_iters + 1)
OuterInRange == i <= max_iters

\* The outer loop is over: "Reached max iterations", return 2.
OuterExhausted ==
  /\ pc = "outer_top" /\ ~OuterInRange
  /\ exit_code' = 2
  /\ pc' = "done"
  /\ last_step' = "outer_exhausted"
  /\ UNCHANGED <<mvars, pvars, rvars, xvars, tvars, totals, inner_totals, edits, config_vars, i, code, out, failing_tests, inner_vars, inner_hist,
                 prompt_file, candidate_file, full_runs, targeted_runs, promotions>>

\* code = 1  # Tests failed (expected with seed prompt)
ReusedCode == 1

\* Iteration 1 with initial results: no run, code = 1, out = the supplied report.
OuterReuse ==
  /\ pc = "outer_top" /\ OuterInRange
  /\ UseInitialResults
  /\ code' = ReusedCode
  /\ out' = initial_results_content
  /\ pc' = "outer_ran"
  /\ last_step' = "reuse"
  /\ UNCHANGED <<mvars, pvars, rvars, xvars, tvars, totals, inner_totals, edits, config_vars, i, failing_tests, exit_code, inner_vars, inner_hist,
                 prompt_file, candidate_file, full_runs, targeted_runs, promotions>>

\* code, out = run_cmd(test_cmd, ...): a full-suite execution.
OuterRunFull ==
  /\ pc = "outer_top" /\ OuterInRange
  /\ ~UseInitialResults
  /\ \E c \in ExitCodes, o \in SuiteReports : code' = c /\ out' = o
  /\ full_runs' = full_runs + 1
  /\ pc' = "outer_ran"
  /\ last_step' = "full_exec"
  /\ total_test_time' = total_test_time + RunSeconds
  /\ UNCHANGED <<mvars, pvars, rvars, xvars, tvars, total_cost_usd, total_usage, inner_totals, edits, config_vars, i, failing_tests, exit_code, inner_vars, inner_hist,
                 prompt_file, candidate_file, targeted_runs, promotions>>

\* A mutant of FullSuitePassed: the report text decides.
FullSuitePassedByReport == extract_failing_test_ids(out) = <<>>

\* The exit status that ends the session with success.
FullSuitePassed == code = 0

\* if code == 0: return 0
OuterSuccess ==
  /\ pc = "outer_ran" /\ FullSuitePassed
  /\ exit_code' = 0
  /\ pc' = "done"
  /\ last_step' = "success"
  /\ UNCHANGED <<mvars, pvars, rvars, xvars, tvars, totals, inner_totals, edits, config_vars, i, code, out, failing_tests, inner_vars, inner_hist,
                 prompt_file, candidate_file, full_runs, targeted_runs, promotions>>

\* A mutant of ShouldEnterInner: the threshold itself still enters.
ShouldEnterInnerInclusive(failing) ==
  0 < Len(failing) /\ Len(failing) <= inner_loop_threshold

\* if 0 < len(failing_tests) < inner_loop_threshold
ShouldEnterInner(failing) == 0 < Len(failing) /\ Len(failing) < inner_loop_threshold

\* Entry of focused_inner_loop: the candidate is a copy of the prompt, the
\* original target is the set of the failing tests handed over.
EnterInnerLoop ==
  /\ pc = "outer_ran" /\ ~FullSuitePassed
  /\ LET failing == extract_failing_test_ids(out) IN
       /\ ShouldEnterInner(failing)
       /\ failing_tests' = failing
       /\ original_failing' = Range(failing)
  /\ candidate_file' = prompt_file
  /\ inner_i' = 1
  /\ first_iteration' = TRUE
  /\ still_failing' = {}
  /\ entry_runs' = 0
  /\ inner_entries' = inner_entries + 1
  /\ progressed' = FALSE
  /\ pc' = "inner_top"
  /\ last_step' = "enter_inner"
  /\ inner_test_time' = 0 /\ inner_cost_usd' = 0 /\ inner_usage' = 0
  /\ UNCHANGED <<mvars, pvars, rvars, xvars, tvars, totals, edits, config_vars, i, code, out, exit_code, prompt_file, full_runs,
                 targeted_runs, promotions>>

\* The failure report goes to the repair agent, which edits the prompt file;
\* the loop then continues with the next outer iteration.
OuterRepair ==
  /\ pc = "outer_ran" /\ ~FullSuitePassed
  /\ ~ShouldEnterInner(extract_failing_test_ids(out))
  /\ failing_tests' = extract_failing_test_ids(out)
  /\ edits' = edits + 1
  /\ prompt_file' = edits'
  /\ i' = i + 1
  /\ pc' = "outer_top"
  /\ last_step' = "outer_repair"
  /\ total_cost_usd' = SdkTotalCost(edits')
  /\ total_usage' = total_usage + QueryTokens
  /\ UNCHANGED <<mvars, pvars, rvars, xvars, tvars, total_test_time, inner_totals, config_vars, code, out, exit_code, inner_vars, inner_hist,
                 candidate_file, full_runs, targeted_runs, promotions>>

\* The locals of focused_inner_loop once it has returned to compile_loop,
\* whose own failing_tests is still the list it passed in.
InnerLocalsGone ==
  /\ inner_i' = 0 /\ first_iteration' = FALSE
  /\ inner_test_time' = 0 /\ inner_cost_usd' = 0 /\ inner_usage' = 0
  /\ original_failing' = {} /\ still_failing' = {}
  /\ failing_tests' = ListOf(original_failing)

\* for i in range(1, max_inner_iters + 1)
InnerInRange == inner_i <= max_inner_iters

\* code = 1  # Tests failed
SkippedCode == 1

\* First inner iteration: no run; the outer loop's result stands in for it.
InnerSkipFirst ==
  /\ pc = "inner_top" /\ InnerInRange /\ first_iteration
  /\ first_iteration' = FALSE
  /\ still_failing' = Range(failing_tests)
  /\ code' = SkippedCode
  /\ pc' = "inner_ran"
  /\ last_step' = "inner_skip"
  /\ UNCHANGED <<mvars, pvars, rvars, xvars, tvars, totals, inner_totals, edits, config_vars, i, out, failing_tests, exit_code, inner_i,
                 original_failing, inner_hist, prompt_file, candidate_file,
                 full_runs, targeted_runs, promotions>>

\* code, out = run_cmd(targeted_cmd, ..., env_override): a targeted execution
\* of the ids of failing_tests against the candidate.
InnerRunTargeted ==
  /\ pc = "inner_top" /\ InnerInRange /\ ~first_iteration
  /\ \E c \in ExitCodes, o \in SuiteReports : code' = c /\ out' = o
  /\ targeted_runs' = targeted_runs + 1
  /\ entry_runs' = entry_runs + 1
  /\ pc' = "inner_ran"
  /\ last_step' = "targeted_exec"
  /\ inner_test_time' = inner_test_time + RunSeconds
  /\ UNCHANGED <<mvars, pvars, rvars, xvars, tvars, totals, inner_cost_usd, inner_usage, edits, config_vars, i, failing_tests, exit_code, inner_vars,
                 inner_entries, progressed, prompt_file, candidate_file,
                 full_runs, promotions>>

\* A mutant of TargetedPassed: the test is inverted.
TargetedPassedInverted == code # 0

\* The inner loop's test for "all targeted tests pass".
TargetedPassed == code = 0

\* A mutant of InnerSuccessContinues: the inner loop's success ends the
\* session with success.
InnerSuccessReturns ==
  /\ i' = i
  /\ pc' = "done"
  /\ exit_code' = 0

\* compile_loop after the inner loop returned True: continue with the next
\* outer iteration, for the full-suite verification.
InnerSuccessContinues ==
  /\ i' = i + 1
  /\ pc' = "outer_top"
  /\ exit_code' = exit_code

\* A mutant of unlink: the file is left in place.
unlink_skipped(content) == content

\* candidate_path.unlink()  # Clean up
unlink(content) == Absent

\* Promotion: the candidate replaces the prompt and is removed; the inner loop
\* returns True.
InnerPromote ==
  /\ pc = "inner_ran" /\ TargetedPassed
  /\ prompt_file' = candidate_file
  /\ candidate_file' = unlink(candidate_file)
  /\ promotions' = promotions + 1
  /\ InnerLocalsGone
  /\ InnerSuccessContinues
  /\ last_step' = "promote"
  /\ total_test_time' = WithInner(total_test_time, inner_test_time)
  /\ total_cost_usd' = WithInner(total_cost_usd, inner_cost_usd)
  /\ total_usage' = WithInner(total_usage, inner_usage)
  /\ UNCHANGED <<mvars, pvars, rvars, xvars, tvars, edits, config_vars, code, out, entry_runs,
                 inner_entries, progressed, full_runs, targeted_runs>>

\* failing_tests = list(still_failing & original_failing)
Narrowed(still, original) == still \cap original

\* if i == max_inner_iters: break
LastInnerIteration == inner_i = max_inner_iters

\* The progress check after a failing result, then the test for the last
\* iteration (break) before the agent is asked.
InnerCheckProgress ==
  /\ pc = "inner_ran" /\ ~TargetedPassed
  /\ IF out # <<>>
     THEN LET still == Range(extract_failing_test_ids(out))
              newly_passing == original_failing \ still
          IN /\ still_failing' = still
             /\ IF newly_passing # {}
                THEN /\ failing_tests' = ListOf(Narrowed(still, original_failing))
                     /\ progressed' = TRUE
                ELSE UNCHANGED <<failing_tests, progressed>>
     ELSE UNCHANGED <<still_failing, failing_tests, progressed>>
  /\ pc' = IF LastInnerIteration THEN "inner_exhausted" ELSE "inner_agent"
  /\ last_step' = "inner_check"
  /\ UNCHANGED <<mvars, pvars, rvars, xvars, tvars, totals, inner_totals, edits, config_vars, i, code, out, exit_code, inner_i, first_iteration,
                 original_failing, entry_runs, inner_entries, prompt_file,
                 candidate_file, full_runs, targeted_runs, promotions>>

\* The agent is asked to edit the candidate; the next inner iteration follows.
InnerRepair ==
  /\ pc = "inner_agent"
  /\ edits' = edits + 1
  /\ candidate_file' = edits'
  /\ inner_i' = inner_i + 1
  /\ pc' = "inner_top"
  /\ last_step' = "inner_repair"
  /\ inner_cost_usd' = SdkTotalCost(edits')
  /\ inner_usage' = inner_usage + QueryTokens
  /\ UNCHANGED <<mvars, pvars, rvars, xvars, tvars, totals, inner_test_time, config_vars, i, code, out, failing_tests, exit_code,
                 first_iteration, original_failing, still_failing, inner_hist,
                 prompt_file, full_runs, targeted_runs, promotions>>

\* A mutant of AfterInnerFailure: the failed inner loop is taken for a
\* successful one and the outer loop goes on.
AfterInnerFailureContinues ==
  /\ exit_code' = exit_code
  /\ pc' = "outer_top"
  /\ i' = i + 1

\* compile_loop after the inner loop returned False: "Inner loop made no
\* progress on targeted tests - aborting", return 2.
AfterInnerFailure ==
  /\ exit_code' = 2
  /\ pc' = "done"
  /\ i' = i

\* The inner loop is over without a passing run: the candidate is removed and
\* focused_inner_loop returns False.
InnerExhausted ==
  /\ pc = "inner_exhausted" \/ (pc = "inner_top" /\ ~InnerInRange)
  /\ candidate_file' = unlink(candidate_file)
  /\ AfterInnerFailure
  /\ last_step' = "inner_exhausted"
  /\ total_test_time' = WithInner(total_test_time, inner_test_time)
  /\ total_cost_usd' = WithInner(total_cost_usd, inner_cost_usd)
  /\ total_usage' = WithInner(total_usage, inner_usage)
  /\ inner_test_time' = 0 /\ inner_cost_usd' = 0 /\ inner_usage' = 0
  /\ UNCHANGED <<mvars, pvars, rvars, xvars, tvars, edits, config_vars, code, out, failing_tests, inner_vars, inner_hist,
                 prompt_file, full_runs, targeted_runs, promotions>>

CompileNext ==
  \/ OuterExhausted
  \/ OuterReuse
  \/ OuterRunFull
  \/ OuterSuccess
  \/ EnterInnerLoop
  \/ OuterRepair
  \/ InnerSkipFirst
  \/ InnerRunTargeted
  \/ InnerPromote
  \/ InnerCheckProgress
  \/ InnerRepair
  \/ InnerExhausted

(* ======================================================================= *)
(*              run_mutation_testing: main and run_mutation_test           *)
(* ======================================================================= *)

\* Text of the compiled prompt on disk, and of the tool descriptions.
BasePrompt == 0

\* The text the generator returns for mutation m at attempt a: a fresh text,
\* different from the base prompt and from every other generated text.
MutantText(m, a) == m * (MaxAttempts + 2) + a

\* Paths of the files the run touches.
PromptPath == "prompt_path"
ToolDescPath == "tool_descriptions"
TempPromptPath == "temp_prompt"
TempToolDescPath == "temp_tool_desc"

\* cache_dir / f"{mutant_id}_attempt{attempts}.txt"
CacheFile(m, a) == <<m, a>>

\* The file system: a text (or Absent) per path, and the cache directory as
\* the set of its files.
NoFiles ==
  [prompt_path |-> Absent, tool_descriptions |-> Absent, temp_prompt |-> Absent,
   temp_tool_desc |-> Absent, cache |-> {}]
NoEnv == [prompt |-> "", tool_desc |-> ""]
NoResult == [activated |-> FALSE, killed |-> FALSE, activation_attempts |-> -1]

MutationIdle ==
  /\ max_attempts = 0 /\ cache_dir = FALSE /\ mpc = "idle" /\ mutation = 0
  /\ attempt = 0 /\ attempts = 0 /\ activated = FALSE /\ killed = FALSE
  /\ mutant_artifacts = None /\ suite_exit = None /\ result = NoResult
  /\ results = <<>> /\ files = NoFiles /\ env_override = NoEnv
  /\ main_exit = None
  /\ gen_calls = 0 /\ probe_calls = 0 /\ suite_runs = 0 /\ activated_at = 0
  /\ suite_saw = None

\* main has loaded the mutations, the prompt and the tool descriptions.
MutationInit ==
  /\ max_attempts \in 0..MaxAttempts
  /\ cache_dir \in BOOLEAN
  /\ mpc = "main_loop" /\ mutation = 1
  /\ attempt = 0 /\ attempts = 0 /\ activated = FALSE /\ killed = FALSE
  /\ mutant_artifacts = None /\ suite_exit = None /\ result = NoResult
  /\ results = <<>>
  /\ files = [NoFiles EXCEPT !.prompt_path = BasePrompt, !.tool_descriptions = BasePrompt]
  /\ env_override = NoEnv
  /\ main_exit = None
  /\ gen_calls = 0 /\ probe_calls = 0 /\ suite_runs = 0 /\ activated_at = 0
  /\ suite_saw = None

mconfig == <<max_attempts, cache_dir>>
mhist == <<gen_calls, probe_calls, suite_runs, activated_at, suite_saw>>

\* for mutation in mutations: run_mutation_test(...) is called for the next
\* mutation; its locals are initialised.
StartMutationTest ==
  /\ mpc = "main_loop" /\ mutation <= NumMutations
  /\ activated' = FALSE /\ killed' = FALSE /\ attempts' = 0 /\ attempt' = 0
  /\ mutant_artifacts' = None
  /\ suite_exit' = None
  /\ gen_calls' = 0 /\ probe_calls' = 0 /\ suite_runs' = 0 /\ activated_at' = 0
  /\ suite_saw' = None
  /\ mpc' = "attempt_top"
  /\ UNCHANGED <<cvars, pvars, rvars, xvars, tvars, mconfig, mutation, result, results, files, env_override,
                 main_exit>>

\* save_prompt(cache_file, mutant_artifacts.prompt) when a cache_dir is given.
CacheMutant(fs, m, a, text) ==
  IF cache_dir
  THEN [fs EXCEPT !.cache = {f \in @ : f.name # CacheFile(m, a)}
                             \cup {[name |-> CacheFile(m, a), text |-> text]}]
  ELSE fs

\* A mutant of AttemptNumber: the loop index is reported as it is.
AttemptNumberZeroBased(a) == a

\* attempts = attempt + 1
AttemptNumber(a) == a + 1

\* An attempt whose generate_mutant call returns a mutant.
GenerateMutant ==
  /\ mpc = "attempt_top" /\ attempt < max_attempts
  /\ attempts' = AttemptNumber(attempt)
  /\ gen_calls' = gen_calls + 1
  /\ mutant_artifacts' = MutantText(mutation, attempts')
  /\ files' = CacheMutant(files, mutation, attempts', mutant_artifacts')
  /\ mpc' = "probe"
  /\ UNCHANGED <<cvars, pvars, rvars, xvars, tvars, mconfig, mutation, attempt, activated, killed, suite_exit,
                 result, results, env_override, main_exit, probe_calls,
                 suite_runs, activated_at, suite_saw>>

\* An attempt whose generate_mutant call raises: continue.
GenerateFails ==
  /\ mpc = "attempt_top" /\ attempt < max_attempts
  /\ attempts' = AttemptNumber(attempt)
  /\ gen_calls' = gen_calls + 1
  /\ attempt' = attempt + 1
  /\ UNCHANGED <<cvars, pvars, rvars, xvars, tvars, mconfig, mpc, mutation, activated, killed,
                 mutant_artifacts, suite_exit, result, results, files,
                 env_override, main_exit, probe_calls, suite_runs, activated_at,
                 suite_saw>>

\* The outcomes of run_activation_probe_with_prompt: a ProbeResult that is
\* activated or not, or an exception.
ProbeOutcomes == {"activated", "not_activated", "error"}

\* activated = probe_result.activated, or False when the probe raised.
ProbeActivated(outcome) == outcome = "activated"

\* The probe runs on the mutant text held in memory; if it activated the
\* attempt loop is left, else the next attempt follows.
RunProbe ==
  /\ mpc = "probe"
  /\ probe_calls' = probe_calls + 1
  /\ \E outcome \in ProbeOutcomes :
       /\ activated' = ProbeActivated(outcome)
       /\ activated_at' = IF outcome = "activated" THEN gen_calls ELSE activated_at
  /\ IF activated'
     THEN mpc' = "after_loop" /\ attempt' = attempt
     ELSE mpc' = "attempt_top" /\ attempt' = attempt + 1
  /\ UNCHANGED <<cvars, pvars, rvars, xvars, tvars, mconfig, mutation, attempts, killed, mutant_artifacts,
                 suite_exit, result, results, files, env_override, main_exit,
                 gen_calls, suite_runs, suite_saw>>

\* A mutant of NeverActivated: the activation flag is not consulted.
NeverActivatedIgnoresFlag == mutant_artifacts = None

\* if not activated or mutant_artifacts is None
NeverActivated == ~activated \/ mutant_artifacts = None

\* The attempt loop is over (by break or by exhaustion).
LoopOver == mpc = "after_loop" \/ (mpc = "attempt_top" /\ attempt >= max_attempts)

\* return MutationResult(activated=False, killed=False, ...)
ReturnInconclusive ==
  /\ LoopOver /\ NeverActivated
  /\ result' = [activated |-> FALSE, killed |-> FALSE, activation_attempts |-> attempts]
  /\ mpc' = "returned"
  /\ UNCHANGED <<cvars, pvars, rvars, xvars, tvars, mconfig, mutation, attempt, attempts, activated, killed,
                 mutant_artifacts, suite_exit, results, files, env_override,
                 main_exit, mhist>>

\* A mutant of SuitePromptPath: the mutant is written over the prompt file.
SuitePromptPathOriginal == PromptPath

\* The path the mutant prompt is written to for the suite run.
SuitePromptPath == TempPromptPath

\* The mutant prompt and tool descriptions are written to two temporary
\* files, and the override environment for the suite names them.
WriteTempFiles ==
  /\ LoopOver /\ ~NeverActivated
  /\ files' = [files EXCEPT ![SuitePromptPath] = mutant_artifacts,
                            ![TempToolDescPath] = mutant_artifacts]
  /\ env_override' = [prompt |-> SuitePromptPath, tool_desc |-> TempToolDescPath]
  /\ mpc' = "suite"
  /\ UNCHANGED <<cvars, pvars, rvars, xvars, tvars, mconfig, mutation, attempt, attempts, activated, killed,
                 mutant_artifacts, suite_exit, result, results, main_exit, mhist>>

\* load_prompt_and_config in the harness: the override path if set, else the
\* agent directory's system_prompt.txt.
LoadedPrompt(env, fs) ==
  IF env.prompt # "" THEN fs[env.prompt] ELSE fs[PromptPath]

\* run_tests(test_cmd, repo_root, env_override): the suite runs and exits;
\* the finally clause then removes the temporary files.
RunSuite ==
  /\ mpc = "suite"
  /\ \E c \in ExitCodes : suite_exit' = c
  /\ suite_saw' = LoadedPrompt(env_override, files)
  /\ suite_runs' = suite_runs + 1
  /\ files' = [files EXCEPT ![TempPromptPath] = Absent, ![TempToolDescPath] = Absent]
  /\ env_override' = NoEnv
  /\ mpc' = "suite_done"
  /\ UNCHANGED <<cvars, pvars, rvars, xvars, tvars, mconfig, mutation, attempt, attempts, activated, killed,
                 mutant_artifacts, result, results, main_exit, gen_calls,
                 probe_calls, activated_at>>

\* A mutant of Killed: the test is inverted.
KilledInverted(exit) == exit = 0

\* killed = exit_code != 0
Killed(exit) == exit # 0

\* return MutationResult(activated=True, killed=killed, ...)
ReturnVerified ==
  /\ mpc = "suite_done"
  /\ killed' = Killed(suite_exit)
  /\ result' = [activated |-> TRUE, killed |-> killed', activation_attempts |-> attempts]
  /\ mpc' = "returned"
  /\ UNCHANGED <<cvars, pvars, rvars, xvars, tvars, mconfig, mutation, attempt, attempts, activated,
                 mutant_artifacts, suite_exit, results, files, env_override,
                 main_exit, mhist>>

\* results.append(result); the next mutation follows.
AppendResult ==
  /\ mpc = "returned"
  /\ results' = Append(results, result)
  /\ mutation' = mutation + 1
  /\ mpc' = "main_loop"
  /\ UNCHANGED <<cvars, pvars, rvars, xvars, tvars, mconfig, attempt, attempts, activated, killed,
                 mutant_artifacts, suite_exit, result, files, env_override,
                 main_exit, mhist>>

\* main's statistics over the results.
activated_results == {k \in 1..Len(results) : results[k].activated}
inconclusive_results == {k \in 1..Len(results) : ~results[k].activated}
killed_results == {k \in activated_results : results[k].killed}

\* A mutant of survived_results: every result that is not killed counts, the
\* inconclusive ones included.
not_killed_results == {k \in 1..Len(results) : ~results[k].killed}

\* survived_results = [r for r in activated_results if not r.killed]
survived_results == {k \in activated_results : ~results[k].killed}

\* A mutant of activated_count: every result counts, activated or not.
CountOfAllResults == Len(results)

activated_count == Cardinality(activated_results)
killed_count == Cardinality(killed_results)

\* The quotient n / d of two counts, kept exact as numerator and denominator.
Quotient(n, d) == [num |-> n, den |-> d]

\* mutation_score = killed_count / activated_count if activated_count > 0 else 0.0
mutation_score ==
  IF activated_count > 0 THEN Quotient(killed_count, activated_count)
  ELSE Quotient(0, 1)

\* return 0 if len(survived_results) == 0 else 1
MainReturn ==
  /\ mpc = "main_loop" /\ mutation > NumMutations
  /\ main_exit' = IF Cardinality(survived_results) = 0 THEN 0 ELSE 1
  /\ mpc' = "done"
  /\ UNCHANGED <<cvars, pvars, rvars, xvars, tvars, mconfig, mutation, attempt, attempts, activated, killed,
                 mutant_artifacts, suite_exit, result, results, files,
                 env_override, mhist>>

MutationNext ==
  \/ StartMutationTest
  \/ GenerateMutant
  \/ GenerateFails
  \/ RunProbe
  \/ ReturnInconclusive
  \/ WriteTempFiles
  \/ RunSuite
  \/ ReturnVerified
  \/ AppendResult
  \/ MainReturn

(* ======================================================================= *)
(*                 mutationsmith.predicates: evaluate_violation            *)
(* ======================================================================= *)

\* The tool names that occur in traces and in predicates.
ToolNames == {"A", "B", "X"}

\* A ToolTrace is the list of its calls; only the name of a call is read here.
ToolCalls == {[name |-> n] : n \in ToolNames}
Traces == UNION {[1..n -> ToolCalls] : n \in 0..MaxTraceLen}

\* ToolTrace.names(): [c.name for c in self.calls]
names(tr) == [k \in 1..Len(tr) |-> tr[k].name]

\* required.issubset(called)
check_trace_called(tr, tool_names) ==
  Range(tool_names) \subseteq Range(names(tr))

\* len(called.intersection(forbidden)) == 0
check_trace_not_called(tr, tool_names) ==
  Cardinality(Range(names(tr)) \cap Range(tool_names)) = 0

\* The index (from 0) that the scan of names leaves in a_idx / b_idx: that of
\* the first occurrence of the name, or None.
FirstIndex(name_list, name) ==
  IF \E k \in 1..Len(name_list) : name_list[k] = name
  THEN (CHOOSE k \in 1..Len(name_list) :
          /\ name_list[k] = name
          /\ \A j \in 1..(k - 1) : name_list[j] # name) - 1
  ELSE None

\* A mutant of BothFound: only b is required to occur.
BothFoundOnlySecond(a_idx, b_idx) == b_idx # None

\* if a_idx is not None and b_idx is not None
BothFound(a_idx, b_idx) == a_idx # None /\ b_idx # None

\* A mutant of CameBefore: the comparison is turned round.
CameBeforeReversed(a_idx, b_idx) == a_idx > b_idx

\* return a_idx < b_idx
CameBefore(a_idx, b_idx) == a_idx < b_idx

check_trace_order_violation(tr, must_not_happen) ==
  IF Len(must_not_happen) # 2 THEN FALSE
  ELSE LET a == must_not_happen[1]
           b == must_not_happen[2]
           a_idx == FirstIndex(names(tr), a)
           b_idx == FirstIndex(names(tr), b)
       IN IF BothFound(a_idx, b_idx) THEN CameBefore(a_idx, b_idx) ELSE FALSE

\* Texts are sequences of characters; `sub in text` for two strings.
IsSubstring(sub, text) ==
  \E k \in 0..(Len(text) - Len(sub)) : SubSeq(text, k + 1, k + Len(sub)) = sub

\* any(sub in text for sub in substrings)
check_text_contains_any(text, substrings) ==
  \E k \in 1..Len(substrings) : IsSubstring(substrings[k], text)

\* not any(sub in text for sub in substrings)
check_text_not_contains_any(text, substrings) ==
  ~(\E k \in 1..Len(substrings) : IsSubstring(substrings[k], text))

\* JSON values: null (Python None), a string, or a mapping of keys to values.
JNull == [type |-> "null"]
JStr(str) == [type |-> "str", value |-> str]
JDict(items) == [type |-> "dict", items |-> items]

\* _get_json_field(data, path); the path is held as path.split('.').
RECURSIVE get_json_field(_, _)
get_json_field(current, parts) ==
  IF parts = <<>> THEN current
  ELSE IF current.type = "dict" /\ Head(parts) \in DOMAIN current.items
       THEN get_json_field(current.items[Head(parts)], Tail(parts))
       ELSE JNull

\* actual == value
check_json_field_equals(data, field, value) ==
  get_json_field(data, field) = value

\* actual in allowed
check_json_field_in(data, field, allowed) ==
  get_json_field(data, field) \in Range(allowed)

\* The keys evaluate_violation honours in each namespace.
SUPPORTED_TRACE == {"called", "not_called", "order_violation"}
SUPPORTED_TEXT == {"contains_any", "not_contains_any"}
SUPPORTED_JSON == {"field_equals", "field_in"}

\* A dict with no key.
EmptyDict == [k \in {} |-> <<>>]

\* The payloads of trace.order_violation: a dict with or without the key
\* must_not_happen, which holds a pair [a, b].
OrderSpecs ==
  {EmptyDict} \cup {[must_not_happen |-> <<a, b>>] : a, b \in {"A", "B"}}

\* One key of one namespace of a predicate, with its payload as written in
\* mutations.yaml.  called_with, matches and field_exists are keys the
\* evaluator does not support.
Clause(ns, key, payload) == [ns |-> ns, key |-> key, payload |-> payload]
ClauseChoices ==
  {Clause("trace", "called", <<"A", "B">>),
   Clause("trace", "not_called", <<"X">>),
   Clause("trace", "called_with", <<"A">>),
   Clause("text", "contains_any", << <<"k">>, <<"h">> >>),
   Clause("text", "not_contains_any", << <<"h">> >>),
   Clause("text", "matches", <<"o">>),
   Clause("json", "field_equals",
          [field |-> <<"decision", "kind">>, value |-> JStr("refund")]),
   Clause("json", "field_in",
          [field |-> <<"decision">>, allowed |-> <<JStr("approve"), JStr("deny")>>]),
   Clause("json", "field_exists", <<"decision">>)}
  \cup {Clause("trace", "order_violation", o) : o \in OrderSpecs}

\* The expect_violation dict made of the clauses S: namespace -> key -> payload.
PredicateOf(S) ==
  [ns \in {"trace", "text", "json"} |->
     [key \in {c.key : c \in {d \in S : d.ns = ns}} |->
        (CHOOSE c \in S : c.ns = ns /\ c.key = key).payload]]

\* The predicates with at most MaxKeys keys in all.
Predicates ==
  {PredicateOf(S) : S \in {T \in SUBSET ClauseChoices :
      /\ Cardinality(T) <= MaxKeys
      /\ Cardinality({<<c.ns, c.key>> : c \in T}) = Cardinality(T)}}

\* The agent's text output, and its structured response (None when it made
\* none).
Texts == {<<>>, <<"o", "k">>, <<"o", "h">>}
NoJson == [type |-> "none"]
JsonResponses ==
  {NoJson,
   JDict([decision |-> JDict([kind |-> JStr("refund")])]),
   JDict([decision |-> JStr("approve")])}

PredicateIdle ==
  /\ expect_violation = PredicateOf({}) /\ trace = <<>> /\ assistant_text = <<>>
  /\ assistant_json = NoJson
  /\ vpc = "idle" /\ reasons = <<>> /\ all_passed = TRUE /\ predicates_checked = 0

\* evaluate_violation is entered with its four arguments; reasons = [],
\* all_passed = True, predicates_checked = 0.
PredicateInit ==
  /\ expect_violation \in Predicates
  /\ trace \in Traces
  /\ assistant_text \in Texts
  /\ assistant_json \in JsonResponses
  /\ vpc = "trace" /\ reasons = <<>> /\ all_passed = TRUE /\ predicates_checked = 0

pinputs == <<expect_violation, trace, assistant_text, assistant_json>>

\* What one `if "<key>" in spec:` block does: whether it counted a predicate,
\* whether all_passed survives it, and the reasons it appended.
Skipped == [checked |-> 0, passed |-> TRUE, reasons |-> <<>>]
Evaluated(ok, clause) ==
  [checked |-> 1, passed |-> ok,
   reasons |-> << <<clause, IF ok THEN "ok" ELSE "FAILED">> >>]

\* if unknown: reasons.append("WARNING: unsupported ... predicates ignored")
Warning(spec, supported, ns) ==
  IF DOMAIN spec \ supported # {} THEN << <<ns, "WARNING">> >> ELSE <<>>

CalledOutcome(trace_spec, tr) ==
  IF "called" \in DOMAIN trace_spec
  THEN Evaluated(check_trace_called(tr, trace_spec["called"]), "trace.called")
  ELSE Skipped

NotCalledOutcome(trace_spec, tr) ==
  IF "not_called" \in DOMAIN trace_spec
  THEN Evaluated(check_trace_not_called(tr, trace_spec["not_called"]),
                 "trace.not_called")
  ELSE Skipped

\* The order_violation block counts a predicate as soon as the key is there,
\* and evaluates it only if the payload has must_not_happen.
OrderOutcome(trace_spec, tr) ==
  IF "order_violation" \in DOMAIN trace_spec
  THEN LET order_spec == trace_spec["order_violation"]
       IN IF "must_not_happen" \in DOMAIN order_spec
          THEN Evaluated(check_trace_order_violation(tr, order_spec["must_not_happen"]),
                         "trace.order_violation")
          ELSE [checked |-> 1, passed |-> TRUE, reasons |-> <<>>]
  ELSE Skipped

ContainsAnyOutcome(text_spec, text) ==
  IF "contains_any" \in DOMAIN text_spec
  THEN Evaluated(check_text_contains_any(text, text_spec["contains_any"]),
                 "text.contains_any")
  ELSE Skipped

NotContainsAnyOutcome(text_spec, text) ==
  IF "not_contains_any" \in DOMAIN text_spec
  THEN Evaluated(check_text_not_contains_any(text, text_spec["not_contains_any"]),
                 "text.not_contains_any")
  ELSE Skipped

\* json_data = assistant_json or {}
json_data(json) == IF json = NoJson THEN JDict(EmptyDict) ELSE json

FieldEqualsOutcome(json_spec, data) ==
  IF "field_equals" \in DOMAIN json_spec
  THEN LET spec == json_spec["field_equals"]
       IN Evaluated(check_json_field_equals(data, spec.field, spec.value),
                    "json.field_equals")
  ELSE Skipped

FieldInOutcome(json_spec, data) ==
  IF "field_in" \in DOMAIN json_spec
  THEN LET spec == json_spec["field_in"]
       IN Evaluated(check_json_field_in(data, spec.field, spec.allowed),
                    "json.field_in")
  ELSE Skipped

\* A mutant of StillPassed: the last clause alone decides.
StillPassedLastWins(passed, outcome) == outcome.passed

\* all_passed after a block: it stays True only if the block did not set it
\* to False.
StillPassed(passed, outcome) == passed /\ outcome.passed

\* The blocks of one namespace, run in order on the three accumulators.
RECURSIVE RunBlocks(_, _)
RunBlocks(acc, outcomes) ==
  IF outcomes = <<>> THEN acc
  ELSE RunBlocks([checked |-> acc.checked + Head(outcomes).checked,
                  passed |-> StillPassed(acc.passed, Head(outcomes)),
                  reasons |-> acc.reasons \o Head(outcomes).reasons],
                 Tail(outcomes))

Accumulators(warning) ==
  [checked |-> predicates_checked, passed |-> all_passed,
   reasons |-> reasons \o warning]

\* # Check trace predicates
CheckTracePredicates ==
  /\ vpc = "trace"
  /\ LET trace_spec == expect_violation.trace
         acc == RunBlocks(Accumulators(Warning(trace_spec, SUPPORTED_TRACE, "trace")),
                          <<CalledOutcome(trace_spec, trace),
                            NotCalledOutcome(trace_spec, trace),
                            OrderOutcome(trace_spec, trace)>>)
     IN /\ predicates_checked' = acc.checked
        /\ all_passed' = acc.passed
        /\ reasons' = acc.reasons
  /\ vpc' = "text"
  /\ UNCHANGED <<cvars, mvars, rvars, xvars, tvars, pinputs>>

\* # Check text predicates
CheckTextPredicates ==
  /\ vpc = "text"
  /\ LET text_spec == expect_violation.text
         acc == RunBlocks(Accumulators(Warning(text_spec, SUPPORTED_TEXT, "text")),
                          <<ContainsAnyOutcome(text_spec, assistant_text),
                            NotContainsAnyOutcome(text_spec, assistant_text)>>)
     IN /\ predicates_checked' = acc.checked
        /\ all_passed' = acc.passed
        /\ reasons' = acc.reasons
  /\ vpc' = "json"
  /\ UNCHANGED <<cvars, mvars, rvars, xvars, tvars, pinputs>>

\* # Check JSON predicates
CheckJsonPredicates ==
  /\ vpc = "json"
  /\ LET json_spec == expect_violation.json
         data == json_data(assistant_json)
         acc == RunBlocks(Accumulators(Warning(json_spec, SUPPORTED_JSON, "json")),
                          <<FieldEqualsOutcome(json_spec, data),
                            FieldInOutcome(json_spec, data)>>)
     IN /\ predicates_checked' = acc.checked
        /\ all_passed' = acc.passed
        /\ reasons' = acc.reasons
  /\ vpc' = "closing"
  /\ UNCHANGED <<cvars, mvars, rvars, xvars, tvars, pinputs>>

\* A mutant of NoPredicateChecked: the closing test is never taken.
NoPredicateCheckedNever == predicates_checked < 0

\* if predicates_checked == 0
NoPredicateChecked == predicates_checked = 0

\* The closing block and the return of (all_passed, reason_text).
ReturnViolation ==
  /\ vpc = "closing"
  /\ IF NoPredicateChecked
     THEN /\ all_passed' = FALSE
          /\ reasons' = Append(reasons, <<"no supported predicates", "ERROR">>)
     ELSE UNCHANGED <<all_passed, reasons>>
  /\ vpc' = "returned"
  /\ UNCHANGED <<cvars, mvars, rvars, xvars, tvars, pinputs, predicates_checked>>

PredicateNext ==
  \/ CheckTracePredicates
  \/ CheckTextPredicates
  \/ CheckJsonPredicates
  \/ ReturnViolation

(* ======================================================================= *)
(*      _run_probe_async, run_agent_conversation and the ToolTrace         *)
(* ======================================================================= *)

\* The tools of a scenario: one domain tool and the final-response tool.
RESPOND == "respond"
DomainTool == "get_account"

\* The arguments a tool is invoked with: respond carries the structured
\* response, told apart by its decision; the domain tool carries an id.
RespondArgs == {"approve", "deny"}
DomainArgs == {"acct"}

\* ToolCall(name, args, result, error): error is set when the tool raised,
\* result otherwise.
ToolCall(n, a, failed) == [name |-> n, args |-> a, error |-> failed]

\* ToolTrace.record: self.calls.append(ToolCall(...))
record(tr, n, a, failed) == Append(tr, ToolCall(n, a, failed))

\* A mutant of get_respond_call: the calls are scanned from the front.
FirstRespondIndex(tr) ==
  IF \E k \in 1..Len(tr) : tr[k].name = RESPOND
  THEN CHOOSE k \in 1..Len(tr) :
         /\ tr[k].name = RESPOND
         /\ \A j \in 1..(k - 1) : tr[j].name # RESPOND
  ELSE 0

\* for call in reversed(self.calls): if call.name == "respond": return call
\* (0 stands for the absence of such a call)
LastRespondIndex(tr) ==
  IF \E k \in 1..Len(tr) : tr[k].name = RESPOND
  THEN CHOOSE k \in 1..Len(tr) :
         /\ tr[k].name = RESPOND
         /\ \A j \in (k + 1)..Len(tr) : tr[j].name # RESPOND
  ELSE 0

\* ToolTrace.get_respond_call: the call, or None (a call that is no call).
NoCall == [name |-> "None"]
get_respond_call(tr) ==
  IF LastRespondIndex(tr) = 0 THEN NoCall ELSE tr[LastRespondIndex(tr)]

\* ToolTrace.get_response: the outcome is the ValueError or the args of the
\* call; the trace is only read.
ValueError == [raised |-> "ValueError: No respond tool call found in trace"]

\* A mutant of get_response: without a respond call, None is returned.
get_response_or_none(tr) ==
  IF get_respond_call(tr) = NoCall
  THEN [returned |-> "None"]
  ELSE [returned |-> get_respond_call(tr).args]

get_response(tr) ==
  IF get_respond_call(tr) = NoCall
  THEN ValueError
  ELSE [returned |-> get_respond_call(tr).args]

\* A mutant of Truthy: the trace object counts as given whenever it is not
\* None.
TruthyWhenGiven(tr) == TRUE

\* bool(trace): ToolTrace defines __len__, so a trace without calls is falsy.
Truthy(tr) == Len(tr) # 0

RunnerIdle ==
  /\ user_turns = 0 /\ turn = 0 /\ rpc = "idle" /\ probe_trace = <<>>
  /\ session_trace = <<>> /\ aliased = FALSE /\ turn_results = <<>>
  /\ probe_result = None /\ invoked = <<>>

\* _run_probe_async after trace = ToolTrace() and build_tools(trace, fixture):
\* the probe names its user turns (possibly none).
RunnerInit ==
  /\ user_turns \in 0..MaxTurns
  /\ turn = 0 /\ rpc = "probe" /\ probe_trace = <<>>
  /\ session_trace = <<>> /\ aliased = FALSE /\ turn_results = <<>>
  /\ probe_result = None /\ invoked = <<>>

\* ProbeResult(activated, reason, ...), with the outcome of the call as
\* run_mutation_test sees it.
ProbeResult(act, why) ==
  [activated |-> act, reason |-> why,
   outcome |-> IF act THEN "activated" ELSE "not_activated"]

\* if not user_turns: return ProbeResult(activated=False, ...)
ProbeNoTurns ==
  /\ rpc = "probe" /\ user_turns = 0
  /\ probe_result' = ProbeResult(FALSE, "No user_turns specified in probe")
  /\ rpc' = "returned"
  /\ UNCHANGED <<cvars, mvars, pvars, xvars, tvars, user_turns, turn, probe_trace,
                 session_trace, aliased, turn_results, invoked>>

\* run_agent_conversation is entered with trace=trace:
\* session_trace = trace or ToolTrace(); the first user turn is sent.
StartConversation ==
  /\ rpc = "probe" /\ user_turns # 0
  /\ aliased' = Truthy(probe_trace)
  /\ session_trace' = IF aliased' THEN probe_trace ELSE <<>>
  /\ turn' = 1
  /\ rpc' = "turn"
  /\ UNCHANGED <<cvars, mvars, pvars, xvars, tvars, user_turns, probe_trace, turn_results,
                 probe_result, invoked>>

\* The trace the fixture's tool writes to, after the tool ran: the tool
\* records its call unless it raised before doing so.
AfterImpl(tr, n, a, failed) == IF failed THEN tr ELSE record(tr, n, a, FALSE)

\* The agent invokes a tool: _handler awaits the tool (which records the
\* call in the trace build_tools was given) and then records the call, with
\* its result or its error, in session_trace.  respond does not raise.
InvokeTool ==
  /\ rpc = "turn" /\ Len(invoked) < MaxCalls
  /\ \E n \in {DomainTool, RESPOND} :
     \E a \in IF n = RESPOND THEN RespondArgs ELSE DomainArgs :
     \E failed \in IF n = RESPOND THEN {FALSE} ELSE BOOLEAN :
       /\ invoked' = Append(invoked, ToolCall(n, a, failed))
       /\ IF aliased
          THEN /\ session_trace' =
                    record(AfterImpl(session_trace, n, a, failed), n, a, failed)
               /\ probe_trace' = session_trace'
          ELSE /\ probe_trace' = AfterImpl(probe_trace, n, a, failed)
               /\ session_trace' = record(session_trace, n, a, failed)
  /\ UNCHANGED <<cvars, mvars, pvars, xvars, tvars, user_turns, turn, rpc, aliased,
                 turn_results, probe_result>>

\* The ResultMessage of the turn arrives: assistant_json =
\* session_trace.get_response(); either the error leaves
\* run_agent_conversation, or the TurnResult is appended and the next turn is
\* sent, or (after the last turn) the results are returned.
EndTurn ==
  /\ rpc = "turn"
  /\ IF get_response(session_trace) = ValueError
     THEN /\ rpc' = "raised"
          /\ UNCHANGED <<turn, turn_results>>
     ELSE /\ turn_results' =
               Append(turn_results,
                      [assistant_json |-> get_response(session_trace).returned,
                       calls |-> Len(session_trace)])
          /\ IF turn < user_turns
             THEN turn' = turn + 1 /\ rpc' = "turn"
             ELSE turn' = turn /\ rpc' = "finished"
  /\ UNCHANGED <<cvars, mvars, pvars, xvars, tvars, user_turns, probe_trace, session_trace,
                 aliased, probe_result, invoked>>

\* except Exception as e: return ProbeResult(activated=False,
\* reason=f"Agent execution error: {e}", ...)
ProbeAbsorbsError ==
  /\ rpc = "raised"
  /\ probe_result' = ProbeResult(FALSE, "Agent execution error")
  /\ rpc' = "returned"
  /\ UNCHANGED <<cvars, mvars, pvars, xvars, tvars, user_turns, turn, probe_trace,
                 session_trace, aliased, turn_results, invoked>>

\* The conversation returned its results: none gives a non-activating
\* result; otherwise evaluate_violation decides on the probe's predicate
\* (which is the probe author's, hence either verdict).
ProbeEvaluates ==
  /\ rpc = "finished"
  /\ IF turn_results = <<>>
     THEN probe_result' = ProbeResult(FALSE, "No results from agent conversation")
     ELSE \E verdict \in BOOLEAN :
            probe_result' = ProbeResult(verdict, "evaluate_violation")
  /\ rpc' = "returned"
  /\ UNCHANGED <<cvars, mvars, pvars, xvars, tvars, user_turns, turn, probe_trace,
                 session_trace, aliased, turn_results, invoked>>

RunnerNext ==
  \/ ProbeNoTurns
  \/ StartConversation
  \/ InvokeTool
  \/ EndTurn
  \/ ProbeAbsorbsError
  \/ ProbeEvaluates

(* ======================================================================= *)
(*     The report functions: extract_failing_test_ids and                  *)
(*     classify_test_failures                                              *)
(* ======================================================================= *)

\* A line of the report that holds one of the structural signatures
\* (infra_patterns: "AttributeError:", "NameError:", "fixture '", ...).
InfraLine == NumTests + 1

\* A line in which the three searches of parse_pytest_summary find the
\* counts p ("<p> passed"), f ("<f> failed") and e ("<e> error(s)"); a count
\* of 0 stands for a search without a match.  Such a line holds one of the
\* words 'passed', 'failed', 'error'.
SummaryBase == 100
SummaryLine(p, f, e) == SummaryBase + 16 * p + 4 * f + e

\* The summary lines of the reports: "1 failed, 2 passed", "3 passed",
\* "2 errors".
SummaryLines == {SummaryLine(2, 1, 0), SummaryLine(3, 0, 0), SummaryLine(0, 0, 2)}

\* The lines of a report: the FAILED line of a test, a line with a structural
\* signature, a summary line, any other line.
ReportLines == Lines \cup {InfraLine} \cup SummaryLines

\* The reports handed to the two functions: every sequence of lines up to
\* MaxReportLen.
Reports == UNION {[1..n -> ReportLines] : n \in 0..MaxReportLen}

\* line.startswith("FAILED ") or "::test_" in line and "FAILED" in line
IsFailureHeader(line) == line \in TestIds

\* is_infra_bug = any(p in error_text for p in infra_patterns)
is_infra_bug(error_text) ==
  \E k \in 1..Len(error_text) : error_text[k] = InfraLine

\* The two lists of classify_test_failures.
Buckets(infra, expected) == [infrastructure_bugs |-> infra, expected_failures |-> expected]

\* if current_test and current_error_lines
HasErrorLines(current_test, current_error_lines) ==
  current_test # None /\ current_error_lines # <<>>

\* "Process previous test" / "Process last test": the test joins one of the
\* two lists, when it has error lines.
ProcessTest(current_test, current_error_lines, b) ==
  IF HasErrorLines(current_test, current_error_lines)
  THEN IF is_infra_bug(current_error_lines)
       THEN Buckets(Append(b.infrastructure_bugs,
                           [test |-> current_test, error_text |-> current_error_lines]),
                    b.expected_failures)
       ELSE Buckets(b.infrastructure_bugs, Append(b.expected_failures, current_test))
  ELSE b

\* for line in lines: ... followed by the processing of the last test.
RECURSIVE ClassifyLines(_, _, _, _)
ClassifyLines(lines, current_test, current_error_lines, b) ==
  IF lines = <<>>
  THEN ProcessTest(current_test, current_error_lines, b)
  ELSE IF IsFailureHeader(Head(lines))
       THEN ClassifyLines(Tail(lines), Head(lines), <<>>,
                          ProcessTest(current_test, current_error_lines, b))
       ELSE IF current_test # None
            THEN ClassifyLines(Tail(lines), current_test,
                               Append(current_error_lines, Head(lines)), b)
            ELSE ClassifyLines(Tail(lines), current_test, current_error_lines, b)

\* classify_test_failures(pytest_output)
classify_test_failures(output) ==
  ClassifyLines(output, None, <<>>, Buckets(<<>>, <<>>))

\* 'passed' in l or 'failed' in l or 'error' in l
HasSummaryWord(l) == l >= SummaryBase

\* re.search(r'(\d+)\s+passed', summary) and the two other searches, as the
\* number found (0 without a match).
PassedMatch(l) == IF l >= SummaryBase THEN (l - SummaryBase) \div 16 ELSE 0
FailedMatch(l) == IF l >= SummaryBase THEN ((l - SummaryBase) % 16) \div 4 ELSE 0
ErrorsMatch(l) == IF l >= SummaryBase THEN (l - SummaryBase) % 4 ELSE 0

\* parse_pytest_summary(output): the counts of the last line that holds a
\* summary word, the errors counted as failures; (0, 0) without such a line.
parse_pytest_summary(output) ==
  LET summary_lines == SelectSeq(output, HasSummaryWord)
  IN IF output = <<>> \/ summary_lines = <<>>
     THEN [passed |-> 0, failed |-> 0]
     ELSE LET summary == summary_lines[Len(summary_lines)]
          IN [passed |-> PassedMatch(summary),
              failed |-> FailedMatch(summary) + ErrorsMatch(summary)]

ReportIdle ==
  /\ pytest_output = <<>> /\ xpc = "idle" /\ failing_ids = <<>>
  /\ infrastructure_bugs = <<>> /\ expected_failures = <<>>
  /\ parsed = FALSE /\ passed_count = 0 /\ failed_count = 0

\* One of the two functions is about to be called on a report.
ReportInit ==
  /\ pytest_output \in Reports /\ xpc = "called" /\ failing_ids = <<>>
  /\ infrastructure_bugs = <<>> /\ expected_failures = <<>>
  /\ parsed = FALSE /\ passed_count = 0 /\ failed_count = 0

(* ======================================================================= *)
(*                       validate_generated_tests                          *)
(* ======================================================================= *)

\* --type
TestTypes == {"visible", "hidden", "all"}

\* What a pytest run of generated tests can print, as far as the
\* classification reads it: nothing, one test failing on an assertion, one
\* test failing on a structural error, or one of each.
RunOutputs ==
  {<<>>, <<1, OtherLine>>, <<1, InfraLine>>, <<1, InfraLine, 2, OtherLine>>}

\* test_dirs, by test_type, of the directories that exist.
HasTestDirs ==
  CASE test_type = "visible" -> visible_dirs
    [] test_type = "hidden" -> hidden_dirs
    [] OTHER -> visible_dirs \/ hidden_dirs

\* if visible_dirs and (test_type in ("visible", "all"))
RunsVisible == visible_dirs /\ test_type \in {"visible", "all"}

\* if hidden_dirs and (test_type in ("hidden", "all"))
RunsHidden == hidden_dirs /\ test_type \in {"hidden", "all"}

thist == <<runs, pytest_calls, fixer_calls, clean_runs>>
tconfig == <<test_type, visible_dirs, hidden_dirs, max_fix_attempts>>
touts == <<visible_output, hidden_output, infra_bugs, expected_fails>>

TestsmithIdle ==
  /\ test_type = "visible" /\ visible_dirs = FALSE /\ hidden_dirs = FALSE
  /\ max_fix_attempts = 0 /\ tpc = "idle" /\ fix_attempt = 0
  /\ visible_output = <<>> /\ hidden_output = <<>> /\ infra_bugs = <<>>
  /\ expected_fails = <<>> /\ validated = None
  /\ runs = 0 /\ pytest_calls = 0 /\ fixer_calls = 0 /\ clean_runs = 0

\* validate_generated_tests is entered: the test type, the directories that
\* exist and the number of attempts (--max-fix-attempts, default 3) are given.
TestsmithInit ==
  /\ test_type \in TestTypes
  /\ visible_dirs \in BOOLEAN /\ hidden_dirs \in BOOLEAN
  /\ max_fix_attempts \in 1..MaxFixAttempts
  /\ tpc = "entry" /\ fix_attempt = 0
  /\ visible_output = <<>> /\ hidden_output = <<>> /\ infra_bugs = <<>>
  /\ expected_fails = <<>> /\ validated = None
  /\ runs = 0 /\ pytest_calls = 0 /\ fixer_calls = 0 /\ clean_runs = 0

\* if not test_dirs: return True, 0.0, {...}
NoTestDirs ==
  /\ tpc = "entry" /\ ~HasTestDirs
  /\ validated' = TRUE
  /\ tpc' = "returned"
  /\ UNCHANGED <<cvars, mvars, pvars, rvars, xvars, tconfig, fix_attempt,
                 touts, thist>>

\* The loop is entered: for attempt in range(1, max_fix_attempts + 1).
EnterFixLoop ==
  /\ tpc = "entry" /\ HasTestDirs
  /\ fix_attempt' = 1
  /\ tpc' = "attempt"
  /\ UNCHANGED <<cvars, mvars, pvars, rvars, xvars, tconfig, touts,
                 validated, thist>>

\* A mutant of NoInfraBugs: expected failures block validation as well.
NoFailuresAtAll(infra, expected) == infra = <<>> /\ expected = <<>>

\* if not infra_bugs
NoInfraBugs(infra, expected) == infra = <<>>

\* One attempt up to its decision: pytest runs on the visible and on the
\* hidden directories (as selected), each output is classified, the lists
\* are combined.
RunPytest ==
  /\ tpc = "attempt" /\ fix_attempt <= max_fix_attempts
  /\ \E vout \in IF RunsVisible THEN RunOutputs ELSE {<<>>} :
     \E hout \in IF RunsHidden THEN RunOutputs ELSE {<<>>} :
       /\ visible_output' = vout
       /\ hidden_output' = hout
       /\ infra_bugs' = classify_test_failures(vout).infrastructure_bugs
                          \o classify_test_failures(hout).infrastructure_bugs
       /\ expected_fails' = classify_test_failures(vout).expected_failures
                              \o classify_test_failures(hout).expected_failures
  /\ runs' = runs + 1
  /\ pytest_calls' = pytest_calls + (IF RunsVisible THEN 1 ELSE 0)
                                  + (IF RunsHidden THEN 1 ELSE 0)
  /\ clean_runs' = clean_runs + (IF infra_bugs' = <<>> THEN 1 ELSE 0)
  /\ tpc' = "ran"
  /\ UNCHANGED <<cvars, mvars, pvars, rvars, xvars, tconfig, fix_attempt,
                 validated, fixer_calls>>

\* if not infra_bugs: ... return True
ValidationPasses ==
  /\ tpc = "ran" /\ NoInfraBugs(infra_bugs, expected_fails)
  /\ validated' = TRUE
  /\ tpc' = "returned"
  /\ UNCHANGED <<cvars, mvars, pvars, rvars, xvars, tconfig, fix_attempt,
                 touts, thist>>

\* if attempt < max_fix_attempts
MoreAttempts == fix_attempt < max_fix_attempts

\* fix_infrastructure_bugs(test_dirs, infra_bugs) is called; whether it
\* succeeded or not, the next attempt follows.
FixInfrastructureBugs ==
  /\ tpc = "ran" /\ ~NoInfraBugs(infra_bugs, expected_fails) /\ MoreAttempts
  /\ fixer_calls' = fixer_calls + 1
  /\ fix_attempt' = fix_attempt + 1
  /\ tpc' = "attempt"
  /\ UNCHANGED <<cvars, mvars, pvars, rvars, xvars, tconfig, touts,
                 validated, runs, pytest_calls, clean_runs>>

\* else: "Max fix attempts reached" ... return False
ValidationFails ==
  /\ tpc = "ran" /\ ~NoInfraBugs(infra_bugs, expected_fails) /\ ~MoreAttempts
  /\ validated' = FALSE
  /\ tpc' = "returned"
  /\ UNCHANGED <<cvars, mvars, pvars, rvars, xvars, tconfig, fix_attempt,
                 touts, thist>>

TestsmithNext ==
  \/ NoTestDirs
  \/ EnterFixLoop
  \/ RunPytest
  \/ ValidationPasses
  \/ FixInfrastructureBugs
  \/ ValidationFails

\* extract_failing_test_ids(output) is called on the report.
ExtractFailingTestIds ==
  /\ xpc = "called"
  /\ failing_ids' = extract_failing_test_ids(pytest_output)
  /\ xpc' = "extracted"
  /\ UNCHANGED <<cvars, mvars, pvars, rvars, tvars, pytest_output,
                 infrastructure_bugs, expected_failures, parsed,
                 passed_count, failed_count>>

\* classify_test_failures(pytest_output) is called on the report.
ClassifyTestFailures ==
  /\ xpc = "called"
  /\ infrastructure_bugs' = classify_test_failures(pytest_output).infrastructure_bugs
  /\ expected_failures' = classify_test_failures(pytest_output).expected_failures
  /\ xpc' = "classified"
  /\ UNCHANGED <<cvars, mvars, pvars, rvars, tvars, pytest_output, failing_ids,
                 parsed, passed_count, failed_count>>

\* parse_pytest_summary(output) is called on the report, before or after
\* its failing ids were extracted.
ParsePytestSummary ==
  /\ xpc \in {"called", "extracted"} /\ ~parsed
  /\ parsed' = TRUE
  /\ passed_count' = parse_pytest_summary(pytest_output).passed
  /\ failed_count' = parse_pytest_summary(pytest_output).failed
  /\ UNCHANGED <<cvars, mvars, pvars, rvars, tvars, pytest_output, xpc,
                 failing_ids, infrastructure_bugs, expected_failures>>

ReportNext ==
  \/ ExtractFailingTestIds
  \/ ClassifyTestFailures
  \/ ParsePytestSummary

ReportStart ==
  CompileIdle /\ MutationIdle /\ PredicateIdle /\ RunnerIdle /\ ReportInit /\ TestsmithIdle

ReportSpec == ReportStart /\ [][ReportNext]_vars

TestsmithStart ==
  CompileIdle /\ MutationIdle /\ PredicateIdle /\ RunnerIdle /\ ReportIdle /\ TestsmithInit

TestsmithSpec == TestsmithStart /\ [][TestsmithNext]_vars

RunnerStart ==
  CompileIdle /\ MutationIdle /\ PredicateIdle /\ RunnerInit /\ ReportIdle /\ TestsmithIdle

RunnerSpec == RunnerStart /\ [][RunnerNext]_vars

PredicateStart ==
  CompileIdle /\ MutationIdle /\ PredicateInit /\ RunnerIdle /\ ReportIdle /\ TestsmithIdle

PredicateSpec == PredicateStart /\ [][PredicateNext]_vars

MutationStart ==
  CompileIdle /\ MutationInit /\ PredicateIdle /\ RunnerIdle /\ ReportIdle /\ TestsmithIdle

MutationSpec == MutationStart /\ [][MutationNext]_vars

CompileStart ==
  CompileInit /\ MutationIdle /\ PredicateIdle /\ RunnerIdle /\ ReportIdle /\ TestsmithIdle

CompileSpec == CompileStart /\ [][CompileNext]_vars

(* ======================================================================= *)
(*                    Properties of the convergence loop                   *)
(* ======================================================================= *)

\* C1: compile_loop returns success (exit code 0) only in an outer iteration
\* whose own full-suite execution exited with code 0: the step that sets the
\* result to 0 starts in the state a full-suite execution of that iteration
\* left, with code 0; neither the reused report nor the inner loop's success
\* ends the session with success.
C1_SuccessOnlyAfterPassingFullRun ==
  [][(exit_code' = 0 /\ exit_code # 0)
       => (last_step = "full_exec" /\ code = 0 /\ i' = i /\ full_runs >= 1)]_vars

\* A session that succeeded although it started from a reused report and went
\* through an inner loop that promoted its candidate.
C1_Witness ==
  exit_code = 0 /\ promotions >= 1 /\ initial_results_content # <<>>

\* C2 as stated: at most max_iters full-suite executions and at most
\* max_inner_iters targeted executions in the whole session.
C2_Original ==
  full_runs <= max_iters /\ targeted_runs <= max_inner_iters

\* The steps left in the current inner iteration, and in the session: a
\* measure of the distance to the end of the session.
PcRank ==
  CASE pc = "inner_exhausted" -> 1
    [] pc = "inner_agent" -> 1
    [] pc = "inner_ran" -> 2
    [] pc = "inner_top" -> 3
    [] OTHER -> 0

InnerSpan == 4 * (max_inner_iters + 2)

SessionRank ==
  IF pc = "done" THEN 0
  ELSE (max_iters + 1 - i) * (InnerSpan + 2)
       + (CASE pc = "outer_top" -> InnerSpan + 1
            [] pc = "outer_ran" -> InnerSpan
            [] OTHER -> 4 * (max_inner_iters + 1 - inner_i) + PcRank)
       + 1

\* C2 amended: at most max_iters full-suite executions, at most
\* max_inner_iters targeted executions in each entry of the inner loop (the
\* inner loop can be entered once per outer iteration), and the session never
\* loops unboundedly: every step brings it closer to its end, by a measure
\* that is bounded by the two iteration budgets.
C2_BoundedSession ==
  /\ [](/\ full_runs <= max_iters
        /\ entry_runs <= max_inner_iters
        /\ inner_entries <= max_iters
        /\ targeted_runs <= inner_entries * max_inner_iters
        /\ SessionRank >= 0
        /\ SessionRank <= (max_iters + 1) * (InnerSpan + 2))
  /\ [][SessionRank' < SessionRank]_vars

\* A finished session whose targeted executions outnumber max_inner_iters.
C2_Witness ==
  pc = "done" /\ inner_entries >= 2 /\ targeted_runs > max_inner_iters

\* The number of distinct ids on the FAILED lines of a report.
FailedIdCount(report) ==
  Cardinality({report[k] : k \in 1..Len(report)} \ {OtherLine})

\* C3: after a failing full-suite result the inner loop is entered if and
\* only if 0 < (number of distinct failing ids) < inner_loop_threshold;
\* otherwise the report goes to the repair agent, the inner loop is not
\* entered and the next outer iteration follows.
C3_InnerIffBelowThreshold ==
  [][(pc = "outer_ran" /\ code # 0)
       => IF 0 < FailedIdCount(out) /\ FailedIdCount(out) < inner_loop_threshold
          THEN /\ last_step' = "enter_inner" /\ pc' = "inner_top" /\ i' = i
               /\ inner_entries' = inner_entries + 1
          ELSE /\ last_step' = "outer_repair" /\ pc' = "outer_top" /\ i' = i + 1
               /\ inner_entries' = inner_entries]_vars

\* The report went to the repair agent with more failing ids than the
\* threshold.
C3_Witness ==
  last_step = "outer_repair" /\ Len(failing_tests) > inner_loop_threshold

\* C4: inside focused_inner_loop the set of targeted ids never grows: the
\* target that an inner iteration hands to the next one (which will execute
\* it) is a subset of the target of that iteration, whatever the run reports.
C4_TargetNonIncreasing ==
  [][(pc = "inner_ran" /\ pc' = "inner_agent")
       => Range(failing_tests') \subseteq Range(failing_tests)]_vars

\* C5: when the inner loop has used up its iterations with a non-empty target
\* and no targeted test ever started passing, focused_inner_loop returns
\* failure and the session is over with exit code 2 (never success).
C5_ExhaustedWithoutProgressFails ==
  (last_step = "inner_exhausted" /\ failing_tests # <<>> /\ ~progressed)
    => (pc = "done" /\ exit_code = 2)

\* The inner loop ran targeted executions up to its last iteration, none of
\* which made a targeted test pass.
C5_Witness ==
  /\ last_step = "inner_exhausted" /\ failing_tests # <<>> /\ ~progressed
  /\ inner_i = max_inner_iters /\ entry_runs >= 2

\* C6: the prompt file changes only by the agent's edit in the outer repair
\* step or by the engine's promotion; a promotion copies the candidate and
\* happens only in the state that a targeted execution with exit code 0 left,
\* hence never in the first inner iteration, which executes nothing.
C6_PromotionOnlyAfterPassingTargetedRun ==
  [][(prompt_file' # prompt_file \/ promotions' # promotions)
       => \/ (last_step' = "outer_repair" /\ promotions' = promotions)
          \/ /\ promotions' = promotions + 1
             /\ last_step = "targeted_exec" /\ code = 0 /\ inner_i >= 2
             /\ candidate_file # Absent /\ prompt_file' = candidate_file]_vars

\* A promotion that put an edited candidate in place of the prompt.
C6_Witness ==
  last_step = "promote" /\ promotions = 1 /\ prompt_file # 0

(* ======================================================================= *)
(*                    Properties of mutation verification                  *)
(* ======================================================================= *)

\* C7: run_mutation_test never writes the prompt file or the tool
\* descriptions file: both keep the base text in every state.  The suite
\* loads the mutant through the override paths, which name the temporary
\* files, and the temporary files exist only while the suite runs.
C7_OriginalNeverWritten ==
  /\ files.prompt_path = BasePrompt
  /\ files.tool_descriptions = BasePrompt
  /\ (mpc = "suite" =>
        /\ env_override = [prompt |-> TempPromptPath, tool_desc |-> TempToolDescPath]
        /\ files.temp_prompt = mutant_artifacts
        /\ files.temp_tool_desc = mutant_artifacts)
  /\ (mpc # "suite" => files.temp_prompt = Absent /\ files.temp_tool_desc = Absent)
  /\ (suite_saw # None => suite_saw = mutant_artifacts /\ suite_saw # BasePrompt)

\* A suite run is over, earlier attempts hit a generator error or a probe
\* that did not activate, and the cache holds a mutant.
C7_Witness ==
  /\ mpc = "suite_done" /\ suite_saw = mutant_artifacts
  /\ gen_calls >= 2 /\ files.cache # {}

\* C8: for an activated mutant, killed is true exactly when the suite exited
\* with a non-zero code.
C8_KilledIffSuiteFailed ==
  (mpc = "returned" /\ result.activated)
    => (suite_runs = 1 /\ (result.killed <=> suite_exit # 0))

\* An activated mutant survived a suite run that exited 0.
C8_Witness ==
  mpc = "returned" /\ result.activated /\ ~result.killed /\ suite_exit = 0

\* C9: an intent none of whose probes activated is returned with
\* activated = false and killed = false without any suite run, and main
\* counts it as inconclusive only; every result is in exactly one of the
\* three classes.
C9_InconclusiveNeitherKilledNorSurvived ==
  /\ (mpc = "returned" /\ activated_at = 0)
       => (~result.activated /\ ~result.killed /\ suite_runs = 0)
  /\ (mpc = "returned" /\ activated_at # 0) => result.activated
  /\ \A k \in 1..Len(results) :
       /\ Cardinality({S \in {inconclusive_results, killed_results, survived_results} :
                         k \in S}) = 1
       /\ ~results[k].activated =>
            (~results[k].killed /\ k \in inconclusive_results
               /\ k \notin killed_results /\ k \notin survived_results)

\* A finished run with an inconclusive intent whose probes ran and never
\* activated, next to an activated one.
C9_Witness ==
  /\ mpc = "returned" /\ activated_at = 0 /\ probe_calls >= 1
  /\ Len(results) >= 1 /\ results[1].activated

\* C10: at most max_attempts generate calls and probes per intent; no attempt
\* follows the one whose probe activated; the result reports the 1-based
\* index of the activating attempt, or max_attempts when none activated.
C10_BoundedAttempts ==
  /\ gen_calls <= max_attempts
  /\ probe_calls <= gen_calls
  /\ (activated_at # 0 => gen_calls = activated_at)
  /\ (mpc = "returned" =>
        result.activation_attempts =
          IF activated_at # 0 THEN activated_at ELSE max_attempts)

\* An intent activated at its second attempt.
C10_Witness ==
  mpc = "returned" /\ activated_at = 2 /\ result.activation_attempts = 2

\* C11: in every report killed_count <= activated_count <= total; the score
\* killed_count / activated_count lies in [0, 1]; results of mutants that never
\* activated enter neither its numerator nor its denominator (both count
\* activated results only, and the inconclusive ones make up the rest of the
\* total); the score is 0 when no mutant activated.
C11_ScoreOverActivatedOnly ==
  /\ killed_count <= activated_count /\ activated_count <= Len(results)
  /\ mutation_score.den > 0
  /\ 0 <= mutation_score.num /\ mutation_score.num <= mutation_score.den
  /\ activated_count + Cardinality(inconclusive_results) = Len(results)
  /\ \A k \in inconclusive_results : ~results[k].killed
  /\ (\E k \in 1..Len(results) : results[k].activated)
       => /\ mutation_score.num = Cardinality({k \in 1..Len(results) :
                                      results[k].activated /\ results[k].killed})
          /\ mutation_score.den = Cardinality({k \in 1..Len(results) :
                                      results[k].activated})
  /\ (\A k \in 1..Len(results) : ~results[k].activated) => mutation_score.num = 0

\* A finished run with one inconclusive and one killed mutant: the score is
\* 1 / 1, not 1 / 2.
C11_Witness ==
  /\ mpc = "done" /\ Len(results) = 2
  /\ Cardinality(inconclusive_results) = 1 /\ killed_count = 1
  /\ mutation_score = Quotient(1, 1)

(* ======================================================================= *)
(*                   Properties of the predicate evaluator                 *)
(* ======================================================================= *)

\* The supported keys of a predicate, as (namespace, key) pairs.
SupportedKeys(ev) ==
  {<<"trace", k>> : k \in DOMAIN ev.trace \cap SUPPORTED_TRACE}
    \cup {<<"text", k>> : k \in DOMAIN ev.text \cap SUPPORTED_TEXT}
    \cup {<<"json", k>> : k \in DOMAIN ev.json \cap SUPPORTED_JSON}

\* The unsupported keys of the three namespaces.
UnsupportedKeys(ev) ==
  {<<"trace", k>> : k \in DOMAIN ev.trace \ SUPPORTED_TRACE}
    \cup {<<"text", k>> : k \in DOMAIN ev.text \ SUPPORTED_TEXT}
    \cup {<<"json", k>> : k \in DOMAIN ev.json \ SUPPORTED_JSON}

\* C12: evaluate_violation fails closed: for a predicate with no supported
\* key (empty, or holding unsupported keys only) it returns activated = false
\* whatever the trace, the text and the json are.
C12_FailsClosed ==
  (vpc = "returned" /\ SupportedKeys(expect_violation) = {}) => ~all_passed

\* A returned evaluation of a predicate made of unsupported keys only, on a
\* non-empty trace, text and json.
C12_Witness ==
  /\ vpc = "returned" /\ SupportedKeys(expect_violation) = {}
  /\ Cardinality(UnsupportedKeys(expect_violation)) = 2
  /\ trace # <<>> /\ assistant_text # <<>> /\ assistant_json # NoJson
  /\ ~all_passed

\* The supported clauses a predicate provides: its supported keys, the key
\* order_violation counting as a clause when it carries the pair
\* must_not_happen that order_violation(a, b) is about.
ProvidedClauses(ev) ==
  {c \in SupportedKeys(ev) :
     c = <<"trace", "order_violation">>
       => "must_not_happen" \in DOMAIN ev.trace["order_violation"]}

\* Whether a provided clause holds of the trace, the text and the json.
ClauseHolds(ev, c, tr, text, json) ==
  LET payload == ev[c[1]][c[2]]
  IN CASE c[2] = "called" -> Range(payload) \subseteq {tr[k].name : k \in 1..Len(tr)}
       [] c[2] = "not_called" ->
            Range(payload) \cap {tr[k].name : k \in 1..Len(tr)} = {}
       [] c[2] = "order_violation" ->
            check_trace_order_violation(tr, payload["must_not_happen"])
       [] c[2] = "contains_any" ->
            \E k \in 1..Len(payload) : IsSubstring(payload[k], text)
       [] c[2] = "not_contains_any" ->
            \A k \in 1..Len(payload) : ~IsSubstring(payload[k], text)
       [] c[2] = "field_equals" ->
            get_json_field(json_data(json), payload.field) = payload.value
       [] c[2] = "field_in" ->
            \E k \in 1..Len(payload.allowed) :
               get_json_field(json_data(json), payload.field) = payload.allowed[k]

\* C13: when at least one supported clause is provided, evaluate_violation
\* returns activated = true exactly when every provided supported clause of
\* the three namespaces holds; an unsupported key adds a warning reason for
\* its namespace and has no part in the boolean result.
C13_ConjunctionOfProvidedClauses ==
  (vpc = "returned" /\ ProvidedClauses(expect_violation) # {})
    => /\ all_passed <=>
            \A c \in ProvidedClauses(expect_violation) :
               ClauseHolds(expect_violation, c, trace, assistant_text, assistant_json)
       /\ \A ns \in {"trace", "text", "json"} :
            (<<ns, "WARNING">> \in Range(reasons))
              <=> (\E c \in UnsupportedKeys(expect_violation) : c[1] = ns)

\* An evaluation that returns true for one clause that holds, provided next
\* to an unsupported key.
C13_Witness ==
  /\ vpc = "returned"
  /\ Cardinality(ProvidedClauses(expect_violation)) = 1
  /\ Cardinality(UnsupportedKeys(expect_violation)) = 1
  /\ all_passed

\* The name a occurs in the list at a place up to which b has not occurred,
\* and b occurs too: the first a precedes the first b.
FirstPrecedes(name_list, a, b) ==
  /\ \E k \in 1..Len(name_list) :
       name_list[k] = a /\ \A j \in 1..k : name_list[j] # b
  /\ \E k \in 1..Len(name_list) : name_list[k] = b

\* The evaluation has passed the trace namespace of a predicate whose trace
\* namespace holds order_violation with must_not_happen = [a, b].
OrderEvaluated(a, b) ==
  /\ vpc \in {"text", "json", "closing", "returned"}
  /\ "order_violation" \in DOMAIN expect_violation.trace
  /\ expect_violation.trace["order_violation"] = [must_not_happen |-> <<a, b>>]

\* The verdict recorded for the order_violation clause.
OrderVerdict == <<"trace.order_violation", "ok">> \in Range(reasons)

\* C14: order_violation(a, b) is true exactly when a and b both occur in the
\* trace and the first occurrence of a precedes the first occurrence of b; it
\* is false when one of them is absent and when a = b.
C14_OrderViolationFirstOccurrences ==
  \A a, b \in ToolNames :
    OrderEvaluated(a, b)
      => /\ OrderVerdict <=> FirstPrecedes(names(trace), a, b)
         /\ OrderVerdict <=> ~(<<"trace.order_violation", "FAILED">> \in Range(reasons))
         /\ (a \notin Range(names(trace)) \/ b \notin Range(names(trace)) \/ a = b)
              => ~OrderVerdict

\* order_violation(A, B) found true on a trace in which B occurs first at the
\* end and A occurs twice.
C14_Witness ==
  /\ OrderEvaluated("A", "B") /\ vpc = "returned"
  /\ names(trace) = <<"A", "A", "B">>
  /\ OrderVerdict /\ all_passed

\* The trace of the calls named in the list.
TraceOf(name_list) == [k \in 1..Len(name_list) |-> [name |-> name_list[k]]]

\* C15 as stated: on trace [A, X, B] order_violation(A, B) is false, on
\* [B, X, A] it is true, and on a trace missing A or B it is false.
C15_Original ==
  OrderEvaluated("A", "B")
    => /\ trace = TraceOf(<<"A", "X", "B">>) => ~OrderVerdict
       /\ trace = TraceOf(<<"B", "X", "A">>) => OrderVerdict
       /\ ("A" \notin Range(names(trace)) \/ "B" \notin Range(names(trace)))
            => ~OrderVerdict

\* C15, amended: on trace [A, X, B] order_violation(A, B) is true (A comes
\* before B), on [B, X, A] it is false, and on a trace missing A or B it is
\* false.
C15_OrderViolationExamples ==
  OrderEvaluated("A", "B")
    => /\ trace = TraceOf(<<"A", "X", "B">>) => OrderVerdict
       /\ trace = TraceOf(<<"B", "X", "A">>) => ~OrderVerdict
       /\ ("A" \notin Range(names(trace)) \/ "B" \notin Range(names(trace)))
            => ~OrderVerdict

\* The evaluation of order_violation(A, B) alone on the trace [A, X, B]
\* returns activated = true.
C15_Witness ==
  /\ OrderEvaluated("A", "B") /\ vpc = "returned"
  /\ SupportedKeys(expect_violation) = {<<"trace", "order_violation">>}
  /\ trace = TraceOf(<<"A", "X", "B">>)
  /\ all_passed

(* ======================================================================= *)
(*               Further properties of the convergence loop                *)
(* ======================================================================= *)

\* C16: after each inner iteration that had test output, the targeted subset
\* is the intersection of that iteration's still-failing set with the
\* original target, hence a subset of the original target.
C16_TargetIsIntersection ==
  [][(pc = "inner_ran" /\ code # 0 /\ out # <<>>
        /\ pc' \in {"inner_agent", "inner_exhausted"})
       => /\ Range(failing_tests')
               = Range(extract_failing_test_ids(out)) \cap original_failing
          /\ Range(failing_tests') \subseteq original_failing]_vars

\* The result of an inner iteration leaves no test of the target failing: the
\* run passed, or its output names no id of the original target as failed.
TargetEmptied ==
  \/ code = 0
  \/ out # <<>> /\ Range(extract_failing_test_ids(out)) \cap original_failing = {}

\* C17: whenever the targeted subset becomes empty in the inner loop, the
\* candidate is promoted to the original path and control goes back to the
\* outer loop for a full-suite run.
C17_EmptyTargetPromotes ==
  [][(pc = "inner_ran" /\ TargetEmptied)
       => (prompt_file' = candidate_file /\ candidate_file' = Absent
             /\ promotions' = promotions + 1 /\ pc' = "outer_top")]_vars

\* The inner loop was given the target {t1, t2, t3}; its first targeted
\* execution found {t2, t3} still failing; its second one has just come back
\* with exit code 0 and no failed test.
ScenarioC ==
  /\ pc = "inner_ran" /\ last_step = "targeted_exec"
  /\ original_failing = {1, 2, 3}
  /\ entry_runs = 2 /\ still_failing = {2, 3} /\ failing_tests = <<2, 3>>
  /\ code = 0 /\ extract_failing_test_ids(out) = <<>>

\* C18 as stated: in scenario C the session promotes the candidate and leaves
\* the inner phase after exactly 2 inner iterations.
C18_Original ==
  [][ScenarioC
       => (/\ prompt_file' = candidate_file /\ promotions' = promotions + 1
           /\ pc' = "outer_top"
           /\ inner_i = 2)]_vars

\* C18, amended: in scenario C the session promotes the candidate and leaves
\* the inner phase after exactly 2 targeted executions, which are those of
\* inner iterations 2 and 3, the first inner iteration executing nothing.
C18_ScenarioCPromotesAfterTwoRuns ==
  [][ScenarioC
       => (/\ prompt_file' = candidate_file /\ candidate_file' = Absent
           /\ promotions' = promotions + 1
           /\ pc' = "outer_top" /\ i' = i + 1
           /\ inner_i = 3 /\ entry_runs' = 2 /\ targeted_runs' = targeted_runs)]_vars

\* The candidate of scenario C has been promoted: two targeted executions,
\* the agent's second edit of the candidate is now the prompt.
C18_Witness ==
  /\ last_step = "promote" /\ entry_runs = 2 /\ inner_entries = 1
  /\ failing_tests = <<1, 2, 3>> /\ progressed
  /\ promotions = 1 /\ prompt_file = 2 /\ candidate_file = Absent

\* The inner loop is about to return failure without ever having narrowed
\* its target.
InnerEndsWithoutProgress ==
  /\ pc = "inner_exhausted" \/ (pc = "inner_top" /\ ~InnerInRange)
  /\ ~progressed

\* C19 as stated: when the inner loop made no narrowing progress, the full
\* failure report goes to the repair collaborator and the session continues
\* with the next outer iteration.
C19_Original ==
  [][InnerEndsWithoutProgress
       => (edits' = edits + 1 /\ prompt_file' = edits' /\ pc' = "outer_top"
             /\ i' = i + 1)]_vars

\* C19, amended: when the inner loop made no narrowing progress, nothing is
\* sent to the repair collaborator and no further outer iteration follows:
\* the session ends there with the failure result (exit code 2), the prompt
\* as it was.
C19_NoProgressAborts ==
  [][InnerEndsWithoutProgress
       => (/\ edits' = edits /\ prompt_file' = prompt_file
           /\ i' = i /\ full_runs' = full_runs
           /\ pc' = "done" /\ exit_code' = 2)]_vars

\* A session aborted in its first outer iteration, with iterations left, by
\* an inner loop that ran its whole budget without narrowing the target.
C19_Witness ==
  /\ pc = "done" /\ last_step = "inner_exhausted" /\ ~progressed
  /\ exit_code = 2 /\ i = 1 /\ max_iters > 1
  /\ entry_runs = max_inner_iters - 1 /\ entry_runs >= 2

\* C20: the outer loop makes at most max_iters iterations, and a session ends
\* with success only on a full-suite execution that exited 0: a session with
\* no such execution ends with the failure result (exit code 2).
C20_OuterBoundedAndFailsWithoutPass ==
  /\ [](/\ i <= max_iters + 1
        /\ pc \notin {"outer_top", "done"} => i <= max_iters
        /\ full_runs <= max_iters
        /\ pc = "done" => exit_code \in {0, 2}
        /\ (pc = "done" /\ exit_code # 2)
             => (last_step = "success" /\ code = 0 /\ full_runs >= 1))
  /\ [][last_step' = "success" => (last_step = "full_exec" /\ code' = code)]_vars
  /\ [][(pc = "outer_top" /\ i > max_iters) => (pc' = "done" /\ exit_code' = 2)]_vars

\* A session that used all its outer iterations, each with a failing
\* full-suite execution, and ended with exit code 2.
C20_Witness ==
  /\ pc = "done" /\ last_step = "outer_exhausted" /\ exit_code = 2
  /\ i = max_iters + 1 /\ max_iters = MaxIters /\ full_runs = max_iters

\* C21: the failing ids behind every loop decision come from the output of
\* the most recent suite execution: `out` changes only by an execution or by
\* the reuse of the pre-supplied report, which happens in outer iteration 1
\* only; the decisions to enter the inner loop or to request a repair read
\* the ids of `out` right after the iteration's full run (or that reuse), and
\* a narrowing reads the ids of `out` right after a targeted run (in the first
\* inner iteration, of the outer run that has just failed); every outer
\* iteration after the first executes the full suite.
C21_DecisionsReadLatestRun ==
  /\ [](pc = "outer_ran" =>
          /\ last_step \in {"full_exec", "reuse"}
          /\ last_step = "reuse" => (i = 1 /\ out = initial_results_content)
          /\ i > 1 => (last_step = "full_exec" /\ full_runs >= i - 1))
  /\ [][out' # out =>
          \/ last_step' \in {"full_exec", "targeted_exec"}
          \/ last_step' = "reuse" /\ i = 1]_vars
  /\ [][last_step' \in {"enter_inner", "outer_repair"} =>
          /\ last_step \in {"full_exec", "reuse"}
          /\ failing_tests' = extract_failing_test_ids(out)
          /\ (last_step' = "enter_inner") = ShouldEnterInner(extract_failing_test_ids(out))]_vars
  /\ [][last_step' = "inner_check" =>
          /\ last_step \in {"targeted_exec", "inner_skip"}
          /\ failing_tests' # failing_tests =>
               Range(failing_tests') = Range(extract_failing_test_ids(out)) \cap original_failing]_vars
  /\ [][last_step' = "inner_skip" =>
          (last_step = "enter_inner" /\ out' = out
             /\ Range(extract_failing_test_ids(out)) = original_failing)]_vars

\* The second outer iteration of a session that was given a pre-supplied
\* report has executed the full suite and is entering the inner loop on the
\* ids of that execution.
C21_Witness ==
  /\ initial_results_content # <<>> /\ i = 2 /\ last_step = "enter_inner"
  /\ full_runs = 1 /\ out # initial_results_content
  /\ failing_tests = extract_failing_test_ids(out)

\* C22: the pass/fail decision of a full-suite execution is its exit code,
\* never the report text: exit code 0 ends the session with success even when
\* the report has FAILED lines, and a non-zero exit code with no extractable
\* failing id is still a failure, for which a repair is requested.
C22_ExitCodeDecides ==
  /\ [][(pc = "outer_ran" /\ code = 0) =>
          (pc' = "done" /\ exit_code' = 0 /\ edits' = edits)]_vars
  /\ [][(pc = "outer_ran" /\ code # 0) => (pc' # "done" /\ exit_code' = exit_code)]_vars
  /\ [][(pc = "outer_ran" /\ code # 0 /\ extract_failing_test_ids(out) = <<>>) =>
          (last_step' = "outer_repair" /\ edits' = edits + 1 /\ i' = i + 1
             /\ pc' = "outer_top")]_vars

\* A session ended with success by a full-suite run that exited 0 although
\* its report lists failed tests.
C22_Witness ==
  /\ pc = "done" /\ exit_code = 0 /\ last_step = "success"
  /\ extract_failing_test_ids(out) # <<>>

\* C23: at every terminal state of compile_loop (success, inner-loop abort,
\* outer exhaustion) the session totals hold the share of every outer and
\* inner iteration executed, those of a failed inner loop too: the test time
\* is that of all full and targeted executions, the tokens are those of all
\* queries, and the cost is no less than the cost of all queries.
C23_TotalsCoverEveryIteration ==
  pc = "done"
    => /\ total_test_time = (full_runs + targeted_runs) * RunSeconds
       /\ total_usage = edits * QueryTokens
       /\ total_cost_usd >= edits * QueryCost

\* A session aborted by a failed inner loop that made targeted executions and
\* queries, after an earlier outer iteration that requested a repair.
C23_Witness ==
  /\ pc = "done" /\ last_step = "inner_exhausted" /\ exit_code = 2
  /\ i = 2 /\ full_runs = 2 /\ entry_runs >= 2 /\ inner_entries = 1
  /\ total_test_time = 2 + entry_runs /\ total_usage = edits /\ edits >= 3

\* C24: a generator exception in an attempt uses up exactly that attempt, is
\* followed by no probe and no suite run for it, and ends neither the
\* attempt loop nor the run; when every attempt raises, the intent is
\* reported inconclusive with attempts = max_attempts and the run goes on
\* with the next intent.
C24_GeneratorErrorConsumesOneAttempt ==
  /\ [][(gen_calls' = gen_calls + 1 /\ mutant_artifacts' = mutant_artifacts)
          => /\ attempt' = attempt + 1 /\ attempts' = attempt + 1
             /\ mpc' = "attempt_top"
             /\ probe_calls' = probe_calls /\ suite_runs' = suite_runs
             /\ activated' = activated /\ result' = result
             /\ results' = results /\ main_exit' = main_exit]_vars
  /\ [](probe_calls <= gen_calls)
  /\ []((mpc = "returned" /\ probe_calls = 0)
          => /\ gen_calls = max_attempts /\ suite_runs = 0
             /\ result = [activated |-> FALSE, killed |-> FALSE,
                           activation_attempts |-> max_attempts])
  /\ [][mpc = "returned"
          => (results' = Append(results, result) /\ mutation' = mutation + 1
                /\ mpc' = "main_loop" /\ main_exit' = main_exit)]_vars

\* The second intent is being processed after a first one all of whose
\* attempts raised in the generator.
C24_Witness ==
  /\ mutation = 2 /\ mpc = "returned" /\ max_attempts = MaxAttempts
  /\ gen_calls = max_attempts /\ probe_calls = 0
  /\ results[1] = [activated |-> FALSE, killed |-> FALSE,
                    activation_attempts |-> max_attempts]

(* ======================================================================= *)
(*              Properties of the scenario run and its trace               *)
(* ======================================================================= *)

\* The scenario run made no invocation of respond.
NoRespondInvoked == \A k \in 1..Len(invoked) : invoked[k].name # RESPOND

\* C25: a probe scenario in which respond is never invoked gives a
\* non-activating probe result and not a crash: the error raised by
\* get_response is absorbed by the probe, which returns activated = false,
\* so that run_mutation_test counts the attempt as failed.
C25_NoFinalResponseIsFailedProbe ==
  /\ [](rpc = "raised" => (NoRespondInvoked /\ turn_results = <<>>))
  /\ []((rpc \in {"finished", "returned"} /\ user_turns # 0 /\ NoRespondInvoked)
          => /\ rpc = "returned"
             /\ probe_result = ProbeResult(FALSE, "Agent execution error")
             /\ probe_result.outcome \in ProbeOutcomes
             /\ ~ProbeActivated(probe_result.outcome))
  /\ [][rpc = "raised" => rpc' = "returned"]_vars

\* A probe whose agent called a domain tool but never respond has returned.
C25_Witness ==
  /\ rpc = "returned" /\ user_turns = MaxTurns /\ NoRespondInvoked
  /\ Len(invoked) >= 1 /\ turn = 1
  /\ probe_result.activated = FALSE

\* s is a prefix of t.
IsPrefix(s, t) == Len(s) <= Len(t) /\ SubSeq(t, 1, Len(s)) = s

\* The invocations whose tool returned (the tool itself records only those).
Returned(calls) == SelectSeq(calls, LAMBDA c : ~c.error)

\* C26: during a scenario run the trace only grows at its end, each tool
\* invocation appends exactly one entry to it (carrying the invocation's name
\* and arguments), nothing else appends, and names() is at every moment the
\* sequence of the names of the invocations made so far.  The same holds of
\* the trace the tools themselves write to, for the invocations whose tool
\* returned.
C26_TraceIsTheInvocationSequence ==
  /\ [](names(session_trace) = names(invoked))
  /\ [](session_trace = invoked)
  /\ [](names(probe_trace) = names(Returned(invoked)))
  /\ [][/\ IsPrefix(session_trace, session_trace')
        /\ IsPrefix(probe_trace, probe_trace')
        /\ Len(session_trace') - Len(session_trace)
             = Len(invoked') - Len(invoked)
        /\ Len(invoked') - Len(invoked) \in {0, 1}]_vars

\* A run of two turns in which MaxCalls invocations were made, one of them
\* of a tool that raised.
C26_Witness ==
  /\ rpc = "finished" /\ turn = 2 /\ Len(invoked) = MaxCalls
  /\ names(session_trace) = names(invoked)
  /\ \E k \in 1..Len(invoked) : invoked[k].error
  /\ Len(probe_trace) = MaxCalls - 1

\* A step in which get_response was called: the turn ended.
TurnEnded ==
  /\ rpc = "turn"
  /\ (rpc' # "turn" \/ turn' # turn)

\* C27: get_response returns the arguments of the last respond call of the
\* trace, whatever precedes it; it fails when the trace holds no respond
\* call; and the trace is the same after the call as before.
C27_GetResponseLastRespondWins ==
  [][TurnEnded
      => /\ session_trace' = session_trace /\ probe_trace' = probe_trace
         /\ IF \E k \in 1..Len(session_trace) : session_trace[k].name = RESPOND
            THEN /\ rpc' # "raised"
                 /\ Len(turn_results') = Len(turn_results) + 1
                 /\ \E k \in 1..Len(session_trace) :
                      /\ session_trace[k].name = RESPOND
                      /\ \A j \in (k + 1)..Len(session_trace) :
                           session_trace[j].name # RESPOND
                      /\ turn_results'[Len(turn_results')].assistant_json
                           = session_trace[k].args
            ELSE /\ rpc' = "raised" /\ turn_results' = turn_results]_vars

\* A turn ended on a trace with two respond calls of different arguments,
\* followed by a domain call: the later respond gave the response.
C27_Witness ==
  /\ Len(turn_results) = 1 /\ Len(session_trace) = 3
  /\ turn_results[1].calls = 3
  /\ session_trace[1].name = RESPOND /\ session_trace[2].name = RESPOND
  /\ session_trace[3].name = DomainTool
  /\ session_trace[1].args # session_trace[2].args
  /\ turn_results[1].assistant_json = session_trace[2].args

(* ======================================================================= *)
(*                   Properties of the report functions                    *)
(* ======================================================================= *)

\* The positions of a sequence that hold x.
Positions(x, seq) == {k \in 1..Len(seq) : seq[k] = x}

\* The first position of x in a sequence that holds it.
FirstPosition(x, seq) ==
  CHOOSE k \in Positions(x, seq) : \A j \in Positions(x, seq) : k <= j

\* The ids printed in a report (on its FAILED lines).
PrintedIds(report) == {t \in TestIds : Positions(t, report) # {}}

C29_EveryFailingIdInOneBucket ==
  xpc = "classified"
    => LET infra == [k \in 1..Len(infrastructure_bugs) |-> infrastructure_bugs[k].test]
       IN /\ \A t \in PrintedIds(pytest_output) :
               Cardinality(Positions(t, infra))
                 + Cardinality(Positions(t, expected_failures)) = 1
          /\ \A k \in 1..Len(infrastructure_bugs) :
               is_infra_bug(infrastructure_bugs[k].error_text)

(* ======================================================================= *)
(*                  Properties of validate_generated_tests                 *)
(* ======================================================================= *)

\* The bounds of the fix path, the failure only after the last run, and the
\* passing of a run without infrastructure bugs whatever its expected
\* failures are.
FixPathBounded ==
  /\ [](runs <= max_fix_attempts)
  /\ [](fixer_calls <= max_fix_attempts - 1)
  /\ []((tpc = "returned" /\ validated = FALSE)
          => (runs = max_fix_attempts /\ clean_runs = 0))
  /\ [][(tpc = "ran" /\ infra_bugs = <<>>)
          => (validated' = TRUE /\ tpc' = "returned"
                /\ fixer_calls' = fixer_calls)]_vars

ScenarioA == <<1, OtherLine, 1, SummaryLine(2, 1, 0)>>

C32_VerifiedVariantIsTheActivatingOne ==
  /\ [][suite_runs' = suite_runs + 1
         => /\ activated /\ activated_at = attempts /\ gen_calls = attempts
            /\ mutant_artifacts = MutantText(mutation, activated_at)
            /\ suite_saw' = MutantText(mutation, activated_at)]_vars
  /\ []((mpc = "returned" /\ activated_at = 0) => suite_runs = 0)
  /\ [](suite_runs <= 1)

\* The third attempt activated and was verified, after a first variant that
\* did not activate and a generator failure in the second attempt.
C32_Witness ==
  /\ mpc = "suite_done" /\ attempts = 3 /\ activated_at = 3
  /\ probe_calls = 2 /\ gen_calls = 3
  /\ suite_saw = MutantText(mutation, 3)
  /\ cache_dir
  /\ \E f \in files.cache : f.name = CacheFile(mutation, 1)
  /\ \A f \in files.cache : f.name # CacheFile(mutation, 2)

(* ======================================================================= *)
(*                 Further properties of evaluate_violation                *)
(* ======================================================================= *)

\* C33 (as stated): evaluate_violation returns true only if at least one
\* clause was evaluated against the trace, the text or the json and found to
\* hold; a predicate whose only supported key is trace.order_violation
\* without must_not_happen does not activate.
C33_ActivationNeedsAnEvaluatedClause ==
  (vpc = "returned" /\ all_passed)
    => \E c \in ProvidedClauses(expect_violation) :
         ClauseHolds(expect_violation, c, trace, assistant_text, assistant_json)

(* ======================================================================= *)
(*                 Properties of the session as a whole                    *)
(* ======================================================================= *)

\* C34 (as stated): every targeted execution of the inner loop names a
\* non-empty subset of the original target; no targeted command is run with
\* an empty id list.
C34_TargetedRunNamesNonEmptySubset ==
  [][targeted_runs' = targeted_runs + 1
       => (failing_tests # <<>> /\ Range(failing_tests) \subseteq original_failing)]_vars

\* C35 (as stated): every promotion of a candidate is followed, before the
\* session terminates, by an execution of the full suite: no session ends
\* right after a promotion, also not when the promotion happened in outer
\* iteration i = max_iters.
C35_PromotionIsFollowedByFullRun ==
  [][last_step = "promote" => pc' # "done"]_vars

\* C36 (as stated): every repair request to the agent, of the outer or of
\* the inner loop, is followed by a suite execution before the session
\* terminates: no session ends on an edit that was never tested.
C36_RepairIsFollowedByExecution ==
  [][(last_step = "outer_repair" \/ last_step = "inner_repair")
       => (pc' # "done" /\ full_runs' + targeted_runs' = full_runs + targeted_runs + 1)]_vars

(* ======================================================================= *)
(*          compile_loop with a budget of three outer iterations           *)
(* ======================================================================= *)

\* The outer iterations of a session in which two inner loops are followed
\* by a repair of the outer loop.
LongIters == 3

\* compile_loop entered with max_iters = LongIters and the largest inner
\* budget; the rest as in CompileInit.
LongSessionInit ==
  /\ max_iters = LongIters
  /\ inner_loop_threshold \in Thresholds
  /\ max_inner_iters = MaxInnerIters
  /\ initial_results_content \in InitialResults
  /\ pc = "outer_top" /\ i = 1 /\ code = None /\ out = <<>> /\ failing_tests = <<>>
  /\ exit_code = None /\ inner_i = 0 /\ first_iteration = FALSE
  /\ original_failing = {} /\ still_failing = {}
  /\ prompt_file = 0 /\ candidate_file = Absent
  /\ full_runs = 0 /\ targeted_runs = 0 /\ entry_runs = 0 /\ inner_entries = 0
  /\ promotions = 0 /\ progressed = FALSE /\ last_step = "init" /\ edits = 0
  /\ total_test_time = 0 /\ total_cost_usd = 0 /\ total_usage = 0
  /\ inner_test_time = 0 /\ inner_cost_usd = 0 /\ inner_usage = 0

LongSessionStart ==
  LongSessionInit /\ MutationIdle /\ PredicateIdle /\ RunnerIdle /\ ReportIdle /\ TestsmithIdle

LongSessionSpec == LongSessionStart /\ [][CompileNext]_vars

\* C37 (as stated): the cumulative cost counter of the session never
\* decreases from one step of the session to the next, hence not between
\* iterations either.
C37_CostNeverDecreases ==
  [][total_cost_usd' >= total_cost_usd]_vars

(* ======================================================================= *)
(*                 Further properties of the conversation                  *)
(* ======================================================================= *)

\* The length of session_trace when turn k was sent.
CallsBeforeTurn(k) == IF k = 1 THEN 0 ELSE turn_results[k - 1].calls

\* C38 (as stated): the structured response of the TurnResult of turn k comes
\* from a respond invocation made during turn k: the respond call that
\* get_response found at the end of turn k was recorded after turn k was
\* sent, and a turn without a respond invocation appends no TurnResult.
C38_ResponseComesFromItsOwnTurn ==
  \A k \in 1..Len(turn_results) :
    LastRespondIndex(SubSeq(session_trace, 1, turn_results[k].calls))
      > CallsBeforeTurn(k)

(* ======================================================================= *)
(*                 The files when focused_inner_loop returns               *)
(* ======================================================================= *)

\* Control is inside focused_inner_loop.
InInnerLoop == pc \in {"inner_top", "inner_ran", "inner_agent", "inner_exhausted"}

\* C39: when focused_inner_loop has returned, with success or with failure,
\* the candidate file does not exist; no step inside the inner loop writes
\* the prompt file except the promotion of the successful return, which
\* gives it the candidate's content, so that at a failing return the prompt
\* file is what it was at the entry of the inner loop.
C39_CandidateGoneAndOriginalKept ==
  /\ []((last_step = "promote" \/ last_step = "inner_exhausted")
          => candidate_file = Absent)
  /\ [][InInnerLoop
          => IF last_step' = "promote"
             THEN prompt_file' = candidate_file
             ELSE prompt_file' = prompt_file]_vars

\* A first inner loop was promoted; a second one edited its candidate and
\* has returned failure: the candidate is gone and the prompt is still the
\* text promoted before.
C39_Witness ==
  /\ last_step = "inner_exhausted" /\ inner_entries = 2 /\ promotions = 1
  /\ candidate_file = Absent
  /\ prompt_file # 0 /\ edits > prompt_file

(* ======================================================================= *)
(*                 The exit code of the mutation-testing run               *)
(* ======================================================================= *)

====
